---- MODULE Spec2Model ----
(***************************************************************************)
(* A model of pyethereum's block and state engine (blocks.py).             *)
(*                                                                         *)
(* Conventions.                                                            *)
(*  - A Python dict is a function whose DOMAIN is its key set; "k in d" is *)
(*    k \in DOMAIN d.                                                      *)
(*  - A Python value held in a cache or a journal entry is a tagged pair:  *)
(*    <<"int", n>> for an integer (True is the integer 1, as True == 1 in  *)
(*    Python) and <<"str", s>> for a byte string; None is <<>>.            *)
(*  - A trie is modelled by its contents; its root hash stands for the     *)
(*    contents (sha3 is taken to be injective), so "restore the root" is   *)
(*    "restore the contents".                                              *)
(*  - A Python list that is shared by reference (self.journal, which a     *)
(*    snapshot keeps a pointer to) is a cell of the heap `journals`.       *)
(*  - Balances are counted in units of 125 szabo (1/8 finney) so that the  *)
(*    rewards fit TLC's integers; every division of blocks.py that is      *)
(*    exact in wei is exact in this unit.                                  *)
(***************************************************************************)
EXTENDS Integers, Sequences, FiniteSets, TLC

VARIABLES
    cls,                \* the class of the block object: "Block" or "CachedBlock"
    caches,             \* self.caches
    journals,           \* heap of journal list objects
    journal,            \* self.journal: index of a cell of journals
    state,              \* self.state: contents of the state trie
    gas_used,           \* self.gas_used
    transactions,       \* self.transactions: contents of the transactions trie
    transaction_count,  \* self.transaction_count
    coinbase,           \* self.coinbase
    uncles,             \* self.uncles
    hash_cached,        \* CachedBlock._hash_cached
    snaps,              \* the snapshots the caller holds, oldest first
    sealed,             \* finalize has been called on the block
    expect,             \* what each read is to return: the last successful write
    chain,              \* the blocks of the store along one chain, genesis first
    cand,               \* the block validate_uncles was last called on, or <<>>
    store,              \* the backing store: the keys it holds
    built,              \* the last call that builds a block and what it produced
    peer,               \* the fields of a Peer object and where its loop stands
    sock,               \* the peer's socket: bytes under way to it, packets written
    trace,              \* what the peer did, in order: dispatches, signals, ...
    last,               \* the last operation called and what it returned
    nops                \* number of operations called on the block so far

blockVars == <<cls, caches, journals, journal, state, gas_used, transactions,
               transaction_count, coinbase, uncles, hash_cached, snaps, sealed, expect>>
chainVars == <<chain, cand>>
buildVars == <<store, built>>
peerVars == <<peer, sock, trace>>

-----------------------------------------------------------------------------
\* Bounds of the model

\* operations called on a block per behaviour
MaxOps == 4
\* snapshots the caller holds at a time
MaxSnaps == 2
\* blocks of the chain in the store
MaxChain == 8
\* largest gas_used
MaxGas == 1

\* The inputs of the operations
Addr == {"aa", "bb"}
Index == {1}
Vals == {0, 1}
Codes == {"", "c1"}
Txs == {"tx1", "tx2"}

-----------------------------------------------------------------------------
\* Python values and dicts

None == <<>>
IntV(n) == <<"int", n>>
StrV(s) == <<"str", s>>
PyTrue == IntV(1)
\* the Python value under the tag
Raw(v) == v[2]

EmptyMap == [x \in {} |-> None]
Put(f, k, v) == [x \in DOMAIN f \cup {k} |-> IF x = k THEN v ELSE f[x]]
Del(f, k) == [x \in DOMAIN f \ {k} |-> f[x]]
\* dict.get(k, default)
Get(f, k, default) == IF k \in DOMAIN f THEN f[k] ELSE default

\* utils.sha3 of an encoding: injective, the value stands for its preimage
sha3(x) == <<"sha3", x>>

-----------------------------------------------------------------------------
\* Program constants

\* utils.denoms.finney, in units of 125 szabo
finney == 8
BLOCK_REWARD == 1500 * finney
UNCLE_REWARD == (15 * BLOCK_REWARD) \div 16
NEPHEW_REWARD == BLOCK_REWARD \div 32

\* acct_structure: the defaults of a blank account (mk_blank_acct)
BlankAcct == [nonce |-> 0, balance |-> 0, storage |-> EmptyMap, code |-> ""]

\* Block.__init__ and reset_cache: the four empty maps, no storage sub-map
EmptyCaches == [balance |-> EmptyMap, nonce |-> EmptyMap, code |-> EmptyMap,
                all |-> EmptyMap, storage |-> EmptyMap]

-----------------------------------------------------------------------------
\* The cache: caches.balance, caches.nonce, caches.code, caches.all are the
\* dicts self.caches['balance'] ...; caches.storage[a] is the dict
\* self.caches['storage:' + a], present only when that key is.

\* "cache in self.caches": the four base maps always are, a storage sub-map
\* only once set_storage_data created it
HasCache(c, cache, a) == cache # "storage" \/ a \in DOMAIN c.storage

\* self.caches[cache] as a dict (defined when HasCache)
CacheOf(c, cache, a) == IF cache = "storage" THEN c.storage[a] ELSE c[cache]

\* the key of an entry in its cache: the address, or the storage index
KeyOf(cache, a, i) == IF cache = "storage" THEN i ELSE a

\* self.caches[cache][key] = v
CachePut(c, cache, a, i, v) ==
    IF cache = "storage"
    THEN [c EXCEPT !.storage = Put(c.storage, a, Put(c.storage[a], i, v))]
    ELSE [c EXCEPT ![cache] = Put(c[cache], a, v)]

\* del self.caches[cache][key]
CacheDel(c, cache, a, i) ==
    IF cache = "storage"
    THEN [c EXCEPT !.storage = Put(c.storage, a, Del(c.storage[a], i))]
    ELSE [c EXCEPT ![cache] = Del(c[cache], a)]

\* A journal entry [cache, index, prev, post]; for a storage sub-map the
\* cache name 'storage:' + addr is the pair (cache, addr) and index the key.
Entry(cache, a, i, prev, post) ==
    [cache |-> cache, addr |-> a, index |-> i, prev |-> prev, post |-> post]

\* The pair (self.caches, the list self.journal points to) an operation works on
CJ(c, j) == [c |-> c, j |-> j]

\* Block.set_and_journal
set_and_journal(cj, cache, a, i, value) ==
    LET prev == Get(CacheOf(cj.c, cache, a), KeyOf(cache, a, i), None)
    IN  IF prev # value
        THEN CJ(CachePut(cj.c, cache, a, i, value),
                Append(cj.j, Entry(cache, a, i, prev, value)))
        ELSE cj

\* Block._set_acct_item
set_acct_item(cj, a, param, value) ==
    set_and_journal(set_and_journal(cj, param, a, 0, value), "all", a, 0, value)

\* Block.get_acct: the account record of the state trie, or the blank account
get_acct(st, a) == Get(st, a, BlankAcct)

\* Block._get_acct_item for nonce, balance, code
get_acct_item(c, st, a, param) ==
    IF a \in DOMAIN c[param] THEN Raw(c[param][a]) ELSE get_acct(st, a)[param]

get_nonce(c, st, a) == get_acct_item(c, st, a, "nonce")
get_balance(c, st, a) == get_acct_item(c, st, a, "balance")
get_code(c, st, a) == get_acct_item(c, st, a, "code")

\* Block.get_storage_data: the cached value, else the storage trie's, else 0
get_storage_data(c, st, a, i) ==
    IF a \in DOMAIN c.storage /\ i \in DOMAIN c.storage[a]
    THEN Raw(c.storage[a][i])
    ELSE Get(get_acct(st, a).storage, i, 0)

\* _delta_item without its check of the new value (a variant the claims are
\* tried against)
delta_item_unchecked(cj, st, a, param, value) ==
    [cj |-> set_acct_item(cj, a, param, IntV(get_acct_item(cj.c, st, a, param) + value)),
     ret |-> TRUE]

\* Block._delta_item: [cj, ret]
delta_item(cj, st, a, param, value) ==
    LET nv == get_acct_item(cj.c, st, a, param) + value
    IN  IF nv < 0
        THEN [cj |-> cj, ret |-> FALSE]
        ELSE [cj |-> set_acct_item(cj, a, param, IntV(nv)), ret |-> TRUE]

\* Block.delta_balance
delta_balance(cj, st, a, value) == delta_item(cj, st, a, "balance", value)

\* Block.transfer_value
transfer_value(cj, st, from, to, value) ==
    LET d == delta_balance(cj, st, from, 0 - value)
    IN  IF d.ret THEN delta_balance(d.cj, st, to, value)
                 ELSE [cj |-> d.cj, ret |-> FALSE]

\* Block.set_storage_data
set_storage_data(cj, a, i, val) ==
    LET cj1 == IF a \notin DOMAIN cj.c.storage
               THEN set_and_journal(
                        CJ([cj.c EXCEPT !.storage = Put(cj.c.storage, a, EmptyMap)], cj.j),
                        "all", a, 0, PyTrue)
               ELSE cj
    IN  set_and_journal(cj1, "storage", a, i, IntV(val))

\* commit_state writing back nonce, balance and code but not the storage
\* sub-map (a variant the claims are tried against)
commit_acct_no_storage(c, st, a) ==
    LET acct == get_acct(st, a)
        field(key) == IF a \in DOMAIN c[key] THEN Raw(c[key][a]) ELSE acct[key]
    IN  [nonce |-> field("nonce"), balance |-> field("balance"),
         storage |-> acct.storage, code |-> field("code")]

\* Block.commit_state, the body of the loop for one address of caches['all']:
\* the account record written back to the state trie
commit_acct(c, st, a) ==
    LET acct == get_acct(st, a)
        sub == Get(c.storage, a, EmptyMap)
        t == acct.storage
        keys == {k \in DOMAIN t : k \notin DOMAIN sub}
                   \cup {k \in DOMAIN sub : Raw(sub[k]) # 0}
        field(key) == IF a \in DOMAIN c[key] THEN Raw(c[key][a]) ELSE acct[key]
    IN  [nonce |-> field("nonce"),
         balance |-> field("balance"),
         storage |-> [k \in keys |-> IF k \in DOMAIN sub THEN Raw(sub[k]) ELSE t[k]],
         code |-> field("code")]

\* Block.commit_state, the loop over caches['all']: the state trie afterwards
commit_trie(c, st) ==
    [a \in DOMAIN st \cup DOMAIN c.all |->
        IF a \in DOMAIN c.all THEN commit_acct(c, st, a) ELSE st[a]]

\* The block's cache, journal and state trie, as the operations below thread
\* them: c = self.caches, js = the heap of journal lists, j = self.journal,
\* st = self.state
Core(c, js, j, st) == [c |-> c, js |-> js, j |-> j, st |-> st]

\* the journal lists the caller's snapshots point to
Held(ss) == {ss[k].journal : k \in DOMAIN ss}

\* Block.reset_cache: self.journal = [] is a new list; the old one lives on
\* when a snapshot points to it, and is garbage (its cell reused) otherwise
reset_cache(b, held) ==
    IF b.j \in held
    THEN [b EXCEPT !.c = EmptyCaches, !.js = Append(b.js, <<>>), !.j = Len(b.js) + 1]
    ELSE [b EXCEPT !.c = EmptyCaches, !.js[b.j] = <<>>]

\* Block.commit_state
commit_state(b, held) ==
    IF Len(b.js[b.j]) = 0
    THEN b
    ELSE reset_cache([b EXCEPT !.st = commit_trie(b.c, b.st)], held)

\* Block.revert, the journal loop: pops entries past size, undoing each; a
\* missing cache or key raises KeyError after the entry was popped
RECURSIVE revert_journal(_, _, _)
revert_journal(c, j, size) ==
    IF Len(j) <= size
    THEN [c |-> c, j |-> j, error |-> FALSE]
    ELSE LET e == j[Len(j)]
             rest == SubSeq(j, 1, Len(j) - 1)
         IN  IF ~HasCache(c, e.cache, e.addr)
             THEN [c |-> c, j |-> rest, error |-> TRUE]
             ELSE IF e.prev # None
             THEN revert_journal(CachePut(c, e.cache, e.addr, e.index, e.prev), rest, size)
             ELSE IF KeyOf(e.cache, e.addr, e.index) \notin DOMAIN CacheOf(c, e.cache, e.addr)
             THEN [c |-> c, j |-> rest, error |-> TRUE]
             ELSE revert_journal(CacheDel(c, e.cache, e.addr, e.index), rest, size)

\* what every read returns: get_nonce, get_balance, get_code, get_storage_data
Reads(c, st) ==
    [nonce |-> [a \in Addr |-> get_nonce(c, st, a)],
     balance |-> [a \in Addr |-> get_balance(c, st, a)],
     code |-> [a \in Addr |-> get_code(c, st, a)],
     storage |-> [a \in Addr |-> [i \in Index |-> get_storage_data(c, st, a, i)]]]

\* The write was made: the read of what it wrote is to return v from now on
\* (expect is what the claims compare the reads with, not program state)
Wrote(field, a, v) == expect' = [expect EXCEPT ![field][a] = v]
WroteStorage(a, i, v) == expect' = [expect EXCEPT !.storage[a][i] = v]
\* The operation sets the state as a whole: the reads are what they are now
Reset == expect' = Reads(caches', state')

-----------------------------------------------------------------------------
\* The operations of a mutable block, as a caller invokes them

\* fewer than n operations were called so far
Within(n) == nops < n

\* the call is recorded: its name and what it returned or raised
Called(op, ret) ==
    /\ last' = [op |-> op, ret |-> ret]
    /\ nops' = nops + 1
    /\ UNCHANGED <<chainVars, buildVars, peerVars>>

\* the operation worked on self.caches and on the list self.journal points to
WriteCJ(cj) ==
    /\ caches' = cj.c
    /\ journals' = [journals EXCEPT ![journal] = cj.j]

\* the cache and journal as the operation finds them
NowCJ == CJ(caches, journals[journal])

\* the contents of the list self.journal points to
Journal == journals[journal]

\* the operation replaced cache, journal and state trie
WriteCore(b) ==
    /\ caches' = b.c
    /\ journals' = b.js
    /\ journal' = b.j
    /\ state' = b.st

NowCore == Core(caches, journals, journal, state)

\* what a snapshot remembers for the claims about it (not program state):
\* a snapshot stays `pure` while only account writes, gas and nested
\* snapshot/revert happened since it was taken
Impure(ss) == [k \in DOMAIN ss |-> [ss[k] EXCEPT !.pure = FALSE]]

\* Block.set_nonce
SetNonce(a, v) ==
    /\ cls = "Block"
    /\ WriteCJ(set_acct_item(NowCJ, a, "nonce", IntV(v)))
    /\ Wrote("nonce", a, v)
    /\ Called("set_nonce", "None")
    /\ UNCHANGED <<cls, journal, state, gas_used, transactions, transaction_count,
                   coinbase, uncles, hash_cached, snaps, sealed>>

\* Block.set_balance
SetBalance(a, v) ==
    /\ cls = "Block"
    /\ WriteCJ(set_acct_item(NowCJ, a, "balance", IntV(v)))
    /\ Wrote("balance", a, v)
    /\ Called("set_balance", "None")
    /\ UNCHANGED <<cls, journal, state, gas_used, transactions, transaction_count,
                   coinbase, uncles, hash_cached, snaps, sealed>>

\* Block.set_code
SetCode(a, code) ==
    /\ cls = "Block"
    /\ WriteCJ(set_acct_item(NowCJ, a, "code", StrV(code)))
    /\ Wrote("code", a, code)
    /\ Called("set_code", "None")
    /\ UNCHANGED <<cls, journal, state, gas_used, transactions, transaction_count,
                   coinbase, uncles, hash_cached, snaps, sealed>>

\* Block.delta_balance
DeltaBalance(a, value) ==
    /\ cls = "Block"
    /\ LET d == delta_balance(NowCJ, state, a, value)
       IN  /\ WriteCJ(d.cj)
           /\ IF d.ret THEN Wrote("balance", a, expect.balance[a] + value)
                       ELSE UNCHANGED expect
           /\ Called("delta_balance", IF d.ret THEN "True" ELSE "False")
    /\ UNCHANGED <<cls, journal, state, gas_used, transactions, transaction_count,
                   coinbase, uncles, hash_cached, snaps, sealed>>

\* Block.transfer_value (value >= 0 is asserted)
TransferValue(from, to, value) ==
    /\ cls = "Block"
    /\ value >= 0
    /\ LET d == transfer_value(NowCJ, state, from, to, value)
       IN  /\ WriteCJ(d.cj)
           /\ IF d.ret
              THEN expect' = [expect EXCEPT !.balance[from] = @ - value,
                                            !.balance[to] = @ + value]
              ELSE UNCHANGED expect
           /\ Called("transfer_value", IF d.ret THEN "True" ELSE "False")
    /\ UNCHANGED <<cls, journal, state, gas_used, transactions, transaction_count,
                   coinbase, uncles, hash_cached, snaps, sealed>>

\* Block.set_storage_data
SetStorageData(a, i, val) ==
    /\ cls = "Block"
    /\ WriteCJ(set_storage_data(NowCJ, a, i, val))
    /\ WroteStorage(a, i, val)
    /\ Called("set_storage_data", "None")
    /\ UNCHANGED <<cls, journal, state, gas_used, transactions, transaction_count,
                   coinbase, uncles, hash_cached, snaps, sealed>>

\* Block.commit_state
CommitState ==
    /\ cls = "Block"
    /\ WriteCore(commit_state(NowCore, Held(snaps)))
    /\ snaps' = Impure(snaps)
    /\ UNCHANGED expect
    /\ Called("commit_state", "None")
    /\ UNCHANGED <<cls, gas_used, transactions, transaction_count,
                   coinbase, uncles, hash_cached, sealed>>

\* Block.snapshot: the dict returned, kept by the caller. 'txs' points to the
\* one Trie object self.transactions and 'journal' to the list self.journal;
\* `at` and `pure` are what the claims compare a revert with.
Snapshot ==
    /\ cls = "Block"
    /\ Len(snaps) < MaxSnaps
    /\ snaps' = Append(snaps,
          [state |-> state, gas |-> gas_used, txcount |-> transaction_count,
           journal |-> journal, journal_size |-> Len(Journal),
           at |-> [caches |-> caches, journal |-> Journal, state |-> state,
                   gas_used |-> gas_used, transactions |-> transactions,
                   transaction_count |-> transaction_count],
           pure |-> TRUE])
    /\ UNCHANGED expect
    /\ Called("snapshot", "None")
    /\ UNCHANGED <<cls, caches, journals, journal, state, gas_used, transactions,
                   transaction_count, coinbase, uncles, hash_cached, sealed>>

\* Block.revert(snaps[k]); the caller drops that snapshot and the later ones.
\* self.transactions = mysnapshot['txs'] assigns the object it already is.
Revert(k) ==
    /\ cls = "Block"
    /\ k \in DOMAIN snaps
    /\ LET s == snaps[k]
           r == revert_journal(caches, journals[s.journal], s.journal_size)
       IN  /\ journal' = s.journal
           /\ journals' = [journals EXCEPT ![s.journal] = r.j]
           /\ caches' = r.c
           /\ IF r.error
              THEN /\ Called("revert", "KeyError")
                   /\ UNCHANGED <<state, gas_used, transaction_count>>
              ELSE /\ Called("revert", "None")
                   /\ state' = s.state
                   /\ gas_used' = s.gas
                   /\ transaction_count' = s.txcount
    /\ snaps' = SubSeq(snaps, 1, k)
    /\ Reset
    /\ UNCHANGED <<cls, transactions, coinbase, uncles, hash_cached, sealed>>

\* processblock.apply_transaction raises block.gas_used as it meters a
\* transaction (the EVM executor is outside this repository's sources)
UseGas ==
    /\ cls = "Block"
    /\ gas_used < MaxGas
    /\ gas_used' = gas_used + 1
    /\ UNCHANGED expect
    /\ Called("use_gas", "None")
    /\ UNCHANGED <<cls, caches, journals, journal, state, transactions,
                   transaction_count, coinbase, uncles, hash_cached, snaps, sealed>>

\* an uncle header as Block.finalize reads it (deserialize_header): its
\* coinbase; extra_data tells uncles of one miner apart
UncleHeader(cb, extra) == [coinbase |-> cb, extra_data |-> extra]

\* Block.finalize, the loop over self.uncles
RECURSIVE uncle_rewards(_, _, _)
uncle_rewards(cj, st, us) ==
    IF us = <<>>
    THEN cj
    ELSE uncle_rewards(delta_balance(cj, st, Head(us).coinbase, UNCLE_REWARD).cj,
                       st, Tail(us))

\* finalize without its closing commit_state (a variant the claims are tried
\* against)
finalize_no_commit(b, held, cb, us) ==
    LET d == delta_balance(CJ(b.c, b.js[b.j]), b.st, cb,
                           BLOCK_REWARD + NEPHEW_REWARD * Len(us))
        cj == uncle_rewards(d.cj, b.st, us)
    IN  [b EXCEPT !.c = cj.c, !.js[b.j] = cj.j]

\* Block.finalize
finalize(b, held, cb, us) ==
    LET d == delta_balance(CJ(b.c, b.js[b.j]), b.st, cb,
                           BLOCK_REWARD + NEPHEW_REWARD * Len(us))
        cj == uncle_rewards(d.cj, b.st, us)
    IN  commit_state([b EXCEPT !.c = cj.c, !.js[b.j] = cj.j], held)

Finalize ==
    /\ cls = "Block"
    /\ WriteCore(finalize(NowCore, Held(snaps), coinbase, uncles))
    /\ snaps' = Impure(snaps)
    /\ sealed' = TRUE
    /\ Reset
    /\ Called("finalize", "None")
    /\ UNCHANGED <<cls, gas_used, transactions, transaction_count,
                   coinbase, uncles, hash_cached>>

\* Block._add_transaction_to_list: self.transactions.update(key of
\* transaction_count, data), on the one Trie object; the keys of the trie are
\* 0..Len(txs)-1, kept here as the positions 1..Len(txs)
add_transaction(txs, count, data) ==
    IF count < Len(txs) THEN [txs EXCEPT ![count + 1] = data] ELSE Append(txs, data)

\* Block._list_transactions
list_transactions(txs, count) == [i \in 1..count |-> txs[i]]

\* Block.get_tx_list_root: the root of the transactions trie
tx_list_root(txs) == <<"root", txs>>

\* Block.add_transaction_to_list: reading self.state_root commits the state
AddTransactionToList(tx) ==
    /\ cls = "Block"
    /\ LET b == commit_state(NowCore, Held(snaps))
       IN  /\ WriteCore(b)
           /\ transactions' = add_transaction(transactions, transaction_count,
                                  [tx |-> tx, state_root |-> b.st, gas_used |-> gas_used])
    /\ transaction_count' = transaction_count + 1
    /\ snaps' = Impure(snaps)
    /\ UNCHANGED expect
    /\ Called("add_transaction_to_list", "None")
    /\ UNCHANGED <<cls, gas_used, coinbase, uncles, hash_cached, sealed>>

\* Block.del_account
DelAccount(a) ==
    /\ cls = "Block"
    /\ LET b == commit_state(NowCore, Held(snaps))
       IN  WriteCore([b EXCEPT !.st = Del(b.st, a)])
    /\ snaps' = Impure(snaps)
    /\ Reset
    /\ Called("del_account", "None")
    /\ UNCHANGED <<cls, gas_used, transactions, transaction_count,
                   coinbase, uncles, hash_cached, sealed>>

\* Block._hash of the block object: sha3 of the serialized header, of which
\* the operations here can change state_root, tx_list_root and gas_used
\* (reading state_root calls commit_state, which a CachedBlock passes)
object_hash(st, txs, gas, cb) ==
    sha3([state_root |-> st, tx_list_root |-> tx_list_root(txs), gas_used |-> gas,
          coinbase |-> cb])

-----------------------------------------------------------------------------
\* The operations on a CachedBlock (get_block / CachedBlock.create_cached):
\* the methods the class overrides raise TypeError when called with the
\* arguments of the Block methods; the others are inherited from Block

\* set_nonce, set_balance, set_code: each calls CachedBlock._set_acct_item
CachedSetAcctItem(op) ==
    /\ cls = "CachedBlock"
    /\ Called(op, "TypeError")
    /\ UNCHANGED blockVars

\* delta_balance: Block._delta_item returns False on underflow, and calls
\* CachedBlock._set_acct_item otherwise
CachedDeltaBalance(a, value) ==
    /\ cls = "CachedBlock"
    /\ Called("delta_balance",
              IF get_balance(caches, state, a) + value < 0 THEN "False" ELSE "TypeError")
    /\ UNCHANGED blockVars

\* set_storage_data: inherited, and set_and_journal is not overridden
CachedSetStorageData(a, i, val) ==
    /\ cls = "CachedBlock"
    /\ WriteCJ(set_storage_data(NowCJ, a, i, val))
    /\ WroteStorage(a, i, val)
    /\ Called("set_storage_data", "None")
    /\ UNCHANGED <<cls, journal, state, gas_used, transactions, transaction_count,
                   coinbase, uncles, hash_cached, snaps, sealed>>

\* del_account: inherited; CachedBlock.commit_state passes, then the address
\* is deleted from the state trie
CachedDelAccount(a) ==
    /\ cls = "CachedBlock"
    /\ state' = Del(state, a)
    /\ UNCHANGED <<cls, caches, journals, journal, gas_used, transactions,
                   transaction_count, coinbase, uncles, hash_cached, snaps, sealed>>
    /\ Reset
    /\ Called("del_account", "None")

\* blk.state_root = root: the property of Block is bound to Block.set_state_root,
\* which a method of the same name in the subclass does not replace
CachedSetStateRoot(st) ==
    /\ cls = "CachedBlock"
    /\ WriteCore(reset_cache([NowCore EXCEPT !.st = st], Held(snaps)))
    /\ Reset
    /\ Called("set_state_root", "None")
    /\ UNCHANGED <<cls, gas_used, transactions, transaction_count,
                   coinbase, uncles, hash_cached, snaps, sealed>>

\* add_transaction_to_list: calls CachedBlock._add_transaction_to_list
CachedAddTransactionToList ==
    /\ cls = "CachedBlock"
    /\ Called("add_transaction_to_list", "TypeError")
    /\ UNCHANGED blockVars

\* revert(mysnapshot): CachedBlock.revert takes no snapshot
CachedRevert ==
    /\ cls = "CachedBlock"
    /\ Called("revert", "TypeError")
    /\ UNCHANGED blockVars

\* finalize: its first delta_balance calls CachedBlock._set_acct_item
CachedFinalize ==
    /\ cls = "CachedBlock"
    /\ Called("finalize", "TypeError")
    /\ UNCHANGED blockVars

\* blk.hash: CachedBlock._hash computes the hash once and keeps it
CachedHash ==
    /\ cls = "CachedBlock"
    /\ hash_cached' = IF hash_cached = None
                      THEN object_hash(state, transactions, gas_used, coinbase)
                      ELSE hash_cached
    /\ Called("hash", "None")
    /\ UNCHANGED <<cls, caches, journals, journal, state, gas_used, transactions,
                   transaction_count, coinbase, uncles, snaps, sealed, expect>>

-----------------------------------------------------------------------------
\* Headers, hashes and the chain of stored blocks

GENESIS_PREVHASH == <<"zero">>

\* 2 ** 256, the size of the hash space, scaled to 4
HashSpace == 4

\* the header fields of block_structure that validation reads; nonce stands
\* for the integer sha3(sha3(rlp_Hn) + nonce) it leads to
Header(prevhash, uncles_hash, number, difficulty, extra_data, nonce) ==
    [prevhash |-> prevhash, uncles_hash |-> uncles_hash, number |-> number,
     difficulty |-> difficulty, extra_data |-> extra_data, nonce |-> nonce]

\* a block of the store: list_header() and the uncle headers it includes
BlockOf(header, us) == [header |-> header, uncles |-> us]

\* Block.hash: sha3 of the serialized header
block_hash(b) == sha3(b.header)

\* check_header_pow
check_header_pow(header) == header.nonce < HashSpace \div header.difficulty

\* blocks.genesis
Genesis == BlockOf(Header(GENESIS_PREVHASH, sha3(<<>>), 0, 2, "", 0), <<>>)

\* get_block: the stored blocks with that hash (one or none)
get_block(db, h) == {k \in DOMAIN db : block_hash(db[k]) = h}

\* Block.get_parent: <<parent>>, or <<>> for UnknownParentException
get_parent(db, b) ==
    IF b.header.number = 0 \/ get_block(db, b.header.prevhash) = {}
    THEN <<>>
    ELSE <<db[CHOOSE k \in get_block(db, b.header.prevhash) : TRUE]>>

\* Block.validate_uncles, the loop for i in [1..7]: ancestor_chain after the
\* remaining iterations, or <<>> when get_parent raised
RECURSIVE ancestors(_, _, _)
ancestors(db, ac, left) ==
    IF left = 0 \/ ac[Len(ac)].header.number = 0
    THEN ac
    ELSE LET p == get_parent(db, ac[Len(ac)])
         IN  IF p = <<>> THEN <<>> ELSE ancestors(db, ac \o p, left - 1)

\* the concatenation of a sequence of sequences
RECURSIVE Flatten(_)
Flatten(ss) == IF ss = <<>> THEN <<>> ELSE Head(ss) \o Flatten(Tail(ss))

\* the elements of a sequence
Range(q) == {q[k] : k \in DOMAIN q}

\* the loop over self.uncles without the test against ineligible (a variant
\* the claims are tried against)
RECURSIVE check_uncles_any(_, _, _)
check_uncles_any(us, eligible_ancestor_hashes, ineligible) ==
    IF us = <<>>
    THEN "True"
    ELSE LET uncle == Head(us)
         IN  IF ~check_header_pow(uncle) THEN "False"
             ELSE IF uncle.prevhash \notin eligible_ancestor_hashes THEN "False"
             ELSE check_uncles_any(Tail(us), eligible_ancestor_hashes, ineligible)

\* Block.validate_uncles, the loop over self.uncles: "True" or "False"
RECURSIVE check_uncles(_, _, _)
check_uncles(us, eligible_ancestor_hashes, ineligible) ==
    IF us = <<>>
    THEN "True"
    ELSE LET uncle == Head(us)
         IN  IF ~check_header_pow(uncle) THEN "False"
             ELSE IF uncle.prevhash \notin eligible_ancestor_hashes THEN "False"
             ELSE IF uncle \in ineligible THEN "False"
             ELSE check_uncles(Tail(us), eligible_ancestor_hashes,
                               ineligible \cup {uncle})

\* validate_uncles with the parent's hash among the eligible ones (a variant
\* the claims are tried against)
validate_uncles_from_parent(db, b) ==
    IF sha3(b.uncles) # b.header.uncles_hash
    THEN "False"
    ELSE LET ancestor_chain == ancestors(db, <<b>>, 7)
         IN  IF ancestor_chain = <<>>
             THEN "UnknownParentException"
             ELSE check_uncles(b.uncles,
                      {block_hash(ancestor_chain[k]) : k \in 2..Len(ancestor_chain)},
                      Range(Flatten([k \in 1..Len(ancestor_chain) - 1 |->
                                        ancestor_chain[k + 1].uncles]))
                          \cup {ancestor_chain[k].header : k \in DOMAIN ancestor_chain})

\* Block.validate_uncles: "True", "False", or the exception get_parent raised
validate_uncles(db, b) ==
    IF sha3(b.uncles) # b.header.uncles_hash
    THEN "False"
    ELSE LET ancestor_chain == ancestors(db, <<b>>, 7)
         IN  IF ancestor_chain = <<>>
             THEN "UnknownParentException"
             ELSE check_uncles(b.uncles,
                      {block_hash(ancestor_chain[k]) : k \in 3..Len(ancestor_chain)},
                      Range(Flatten([k \in 1..Len(ancestor_chain) - 1 |->
                                        ancestor_chain[k + 1].uncles]))
                          \cup {ancestor_chain[k].header : k \in DOMAIN ancestor_chain})

\* Peer.__init__ on a connection nothing has arrived on; the loop is about to
\* run its first tick
NewPeer ==
    [port |-> 1, client_version |-> 0, node_id |-> 0, capabilities |-> 0,
     hello_received |-> FALSE, hello_sent |-> FALSE,
     last_valid_packet_received |-> 0,
     status_received |-> FALSE, status_sent |-> FALSE,
     status_total_difficulty |-> 0, status_head_hash |-> 0,
     recv_buffer |-> <<>>, response_queue |-> <<>>,
     stopped |-> FALSE, pc |-> "send"]

InitPeer ==
    /\ peer = NewPeer
    /\ sock = [inbound |-> <<>>, arrived |-> <<>>, written |-> <<>>, closed |-> FALSE,
               empty_reads |-> 0]
    /\ trace = <<>>

\* nothing has been built and the store is empty
InitBuild ==
    /\ store = [roots |-> {}, blocks |-> {}]
    /\ built = <<>>
    /\ InitPeer

\* the call on a stored or received block is recorded
ChainCalled(op, ret) ==
    /\ last' = [op |-> op, ret |-> ret]
    /\ UNCHANGED <<blockVars, buildVars, peerVars, nops>>

\* the child of the head of the chain with the given uncles and uncles_hash
ChildOf(parent, us, uh) ==
    BlockOf(Header(block_hash(parent), uh, parent.header.number + 1, 2, "", 0), us)

\* a header mined on a block of the store, but not the one the chain went on
\* with: a possible uncle
UncleOn(parent, nonce) ==
    Header(block_hash(parent), sha3(<<>>), parent.header.number + 1, 2, "u", nonce)

\* a header whose parent is not in the store
Orphan ==
    Header(sha3(Header(GENESIS_PREVHASH, sha3(<<>>), 0, 2, "unknown", 0)),
           sha3(<<>>), 1, 2, "u", 0)

\* the uncle headers a block may arrive with: mined on any block of the chain,
\* one on the grandparent with a nonce that fails the PoW check, an orphan,
\* and the header of any block of the chain
UncleHeaders(db) ==
    {UncleOn(db[k], 0) : k \in DOMAIN db}
        \cup {UncleOn(db[k], 3) : k \in {Len(db) - 1} \cap DOMAIN db}
        \cup {Orphan}
        \cup {db[k].header : k \in DOMAIN db}

\* the uncle lists a block may arrive with
UncleLists(db) ==
    {<<>>} \cup {<<u>> : u \in UncleHeaders(db)}
           \cup {<<u, v>> : u \in UncleHeaders(db), v \in UncleHeaders(db)}

\* validate_uncles is called on a block received as child of the head
ValidateUncles(us, uh) ==
    /\ cand = <<>>
    /\ cand' = ChildOf(chain[Len(chain)], us, uh)
    /\ chain' = chain
    /\ ChainCalled("validate_uncles", validate_uncles(chain, cand'))

\* validate_uncles is called on a block that lists its own header as uncle:
\* the header holds uncles_hash, so sha3 of a list holding the header differs
ValidateOwnHeader(uh) ==
    /\ cand = <<>>
    /\ cand' = ChildOf(chain[Len(chain)],
                       <<ChildOf(chain[Len(chain)], <<>>, uh).header>>, uh)
    /\ chain' = chain
    /\ ChainCalled("validate_uncles", validate_uncles(chain, cand'))

\* validate_uncles is called on a block whose parent is not in the store
ValidateOrphan(us) ==
    /\ cand = <<>>
    /\ cand' = BlockOf([Orphan EXCEPT !.uncles_hash = sha3(us)], us)
    /\ chain' = chain
    /\ ChainCalled("validate_uncles", validate_uncles(chain, cand'))

\* the chain manager stores the block it validated (the chain manager is
\* outside this repository's sources); one block of the chain carries an uncle
AddBlock ==
    /\ last = [op |-> "validate_uncles", ret |-> "True"]
    /\ cand # <<>>
    /\ cand.uncles # <<>> =>
          Len(cand.uncles) = 1 /\ \A k \in DOMAIN chain : chain[k].uncles = <<>>
    /\ chain' = Append(chain, cand)
    /\ cand' = <<>>
    /\ ChainCalled("add_block", "None")

\* the chain manager drops the block
DropBlock ==
    /\ cand # <<>>
    /\ cand' = <<>>
    /\ chain' = chain
    /\ ChainCalled("drop_block", "None")

\* the store holds the genesis block
InitChain ==
    /\ chain = <<Genesis>>
    /\ cand = <<>>
    /\ InitBuild

-----------------------------------------------------------------------------
\* Difficulty and gas limit of a child block

INITIAL_DIFFICULTY == 131072
MIN_GAS_LIMIT == 125000
GASLIMIT_EMA_FACTOR == 1024
BLOCK_DIFF_FACTOR == 1024
BLKLIM_FACTOR_NOM == 6
BLKLIM_FACTOR_DEN == 5
DIFF_ADJUSTMENT_CUTOFF == 5

\* calc_difficulty with the cutoff included in the raising branch (a variant
\* the claims are tried against)
calc_difficulty_upto(parent, timestamp) ==
    LET offset == parent.difficulty \div BLOCK_DIFF_FACTOR
        sign == IF timestamp - parent.timestamp <= DIFF_ADJUSTMENT_CUTOFF
                THEN 1 ELSE 0 - 1
    IN  parent.difficulty + offset * sign

\* calc_difficulty; Python 2's / on integers is the floor division
calc_difficulty(parent, timestamp) ==
    LET offset == parent.difficulty \div BLOCK_DIFF_FACTOR
        sign == IF timestamp - parent.timestamp < DIFF_ADJUSTMENT_CUTOFF
                THEN 1 ELSE 0 - 1
    IN  parent.difficulty + offset * sign

\* calc_gaslimit
calc_gaslimit(parent) ==
    LET prior_contribution == parent.gas_limit * (GASLIMIT_EMA_FACTOR - 1)
        new_contribution ==
            (parent.gas_used * BLKLIM_FACTOR_NOM) \div BLKLIM_FACTOR_DEN
        gl == (prior_contribution + new_contribution) \div GASLIMIT_EMA_FACTOR
    IN  IF gl > MIN_GAS_LIMIT THEN gl ELSE MIN_GAS_LIMIT

\* the call of a function of the module is recorded with what it returned
BuildCalled(op, args, ret) ==
    /\ built' = [op |-> op, args |-> args, ret |-> ret]
    /\ last' = [op |-> op, ret |-> "None"]
    /\ UNCHANGED <<blockVars, chainVars, peerVars, nops>>

\* calc_difficulty(parent, timestamp) is called
CalcDifficulty(d_p, t_p, t) ==
    BuildCalled("calc_difficulty",
                [difficulty |-> d_p, parent_timestamp |-> t_p, timestamp |-> t],
                calc_difficulty([difficulty |-> d_p, timestamp |-> t_p], t))
    /\ store' = store

\* the parent difficulties, parent timestamps and child timestamps tried
Difficulties == {0, 1, 1023, 1024, 2047, 2048, INITIAL_DIFFICULTY, INITIAL_DIFFICULTY + 1023}
ParentTimes == {0, 1000, 1008}
Times == {0} \cup (998 .. 1011)

-----------------------------------------------------------------------------
\* Construction and deserialization of a block.  A serialized block
\* (rlpdata) is the record of its three parts: header (the 13 fields of
\* block_structure, taken in their canonical encoding), transaction_list (the
\* entries [tx, state_root, gas_used]) and uncles.  The store db holds the
\* state roots written to it and the serialized blocks put under their hash.
\* A nonce is <<>> when empty and <<h>> when it is 32 bytes that lead to the
\* hash value h.  extra_data is at most 1024 bytes in every input.

GENESIS_NONCE == <<42>>
GENESIS_GAS_LIMIT == 1000000

\* what a constructing call produced: a block, or the exception raised;
\* roots are the state roots the call wrote to the store
Produced(block, roots) == [ret |-> "Block", block |-> block, roots |-> roots]
Raised(exception, roots) == [ret |-> exception, block |-> <<>>, roots |-> roots]

\* Block.is_genesis
is_genesis(h) == h.prevhash = GENESIS_PREVHASH /\ h.nonce = GENESIS_NONCE

\* Trie.root_hash_valid for a state root: the blank root or a root of the store
root_hash_valid(db, root) == root = EmptyMap \/ root \in db.roots

\* the header as check_header_pow reads it: a 32-byte nonce by its hash value
PowHeader(h) == [h EXCEPT !.nonce = h.nonce[1]]

\* Block.__init__: the fields, the empty caches and journal, the two tries,
\* then the consistency verifications; the transactions trie is in the store
\* only as the constructor writes it
Block(db, h, transaction_list, us) ==
    IF ~root_hash_valid(db, h.state_root) THEN Raised("Exception", {})
    ELSE IF h.tx_list_root # tx_list_root(transaction_list) THEN Raised("Exception", {})
    ELSE IF h.coinbase = "" THEN Raised("Exception", {})
    ELSE IF ~is_genesis(h) /\ h.nonce # <<>> /\ ~check_header_pow(PowHeader(h))
    THEN Raised("Exception", {})
    ELSE Produced([header |-> h, transactions |-> transaction_list, uncles |-> us,
                   caches |-> EmptyCaches, journal |-> <<>>], {})

\* Block.init_from_parent, given parent.hash and parent.state.root_hash
init_from_parent(db, parent_hash, parent_root, parent, cb, extra_data, timestamp, us) ==
    Block(db,
          [prevhash |-> parent_hash,
           uncles_hash |-> sha3(us),
           coinbase |-> cb,
           state_root |-> parent_root,
           tx_list_root |-> tx_list_root(<<>>),
           difficulty |-> calc_difficulty(parent, timestamp),
           number |-> parent.number + 1,
           min_gas_price |-> 0,
           gas_limit |-> calc_gaslimit(parent),
           gas_used |-> 0,
           timestamp |-> timestamp,
           extra_data |-> extra_data,
           nonce |-> <<>>],
          <<>>, us)

\* the account a transaction is sent from
sender(tx) == IF tx = "tx1" THEN "aa" ELSE "bb"

\* processblock.apply_transaction on a block with an empty cache, then the
\* commit of the state and add_transaction_to_list: the sender's nonce is
\* raised and one unit of gas is used (the EVM executor is outside this
\* repository's sources)
apply_transaction(b, tx) ==
    LET st == Put(b.header.state_root, sender(tx),
                  [get_acct(b.header.state_root, sender(tx)) EXCEPT !.nonce = @ + 1])
        gas == b.header.gas_used + 1
        txs == Append(b.transactions, [tx |-> tx, state_root |-> st, gas_used |-> gas])
    IN  [b EXCEPT !.header.state_root = st, !.header.gas_used = gas,
                  !.header.tx_list_root = tx_list_root(txs), !.transactions = txs]

\* Block.deserialize_child, the replay loop: the block after the transactions
\* of the list that replay as recorded, in order, up to the first that does
\* not
RECURSIVE replay(_, _)
replay(b, transaction_list) ==
    IF transaction_list = <<>>
    THEN [block |-> b, ok |-> TRUE]
    ELSE LET applied == apply_transaction(b, Head(transaction_list).tx)
         IN  IF \/ Head(transaction_list).gas_used # applied.header.gas_used
                \/ Head(transaction_list).state_root # applied.header.state_root
             THEN [block |-> applied, ok |-> FALSE]
             ELSE replay(applied, Tail(transaction_list))

\* the state roots a replayed block wrote
RootsOf(b) ==
    {b.header.state_root} \cup {b.transactions[k].state_root : k \in DOMAIN b.transactions}

\* Block.finalize on a block with an empty cache
finalized(b) ==
    [b EXCEPT !.header.state_root =
        finalize(Core(EmptyCaches, << <<>> >>, 1, b.header.state_root), {},
                 b.header.coinbase, b.uncles).st]

\* Block.hash of a block whose cache is committed
hash_of(h) == sha3(h)

\* deserialize_child without the checks that follow the replay (a variant
\* the claims are tried against)
deserialize_child_unchecked(db, parent, d) ==
    LET h == d.header
        made == init_from_parent(db, hash_of(parent), parent.state_root, parent,
                                 h.coinbase, h.extra_data, h.timestamp, d.uncles)
        replayed == replay(made.block, d.transaction_list)
        final == finalized(replayed.block)
        block == [final EXCEPT !.header.uncles_hash = h.uncles_hash,
                               !.header.nonce = h.nonce,
                               !.header.min_gas_price = h.min_gas_price]
    IN  IF made.ret # "Block" THEN made
        ELSE IF ~replayed.ok THEN Raised("AssertionError", RootsOf(replayed.block))
        ELSE Produced(block, RootsOf(final))

\* Block.deserialize_child; parent is the header of self
deserialize_child(db, parent, d) ==
    LET h == d.header
        made == init_from_parent(db, hash_of(parent), parent.state_root, parent,
                                 h.coinbase, h.extra_data, h.timestamp, d.uncles)
        replayed == replay(made.block, d.transaction_list)
        final == finalized(replayed.block)
        block == [final EXCEPT !.header.uncles_hash = h.uncles_hash,
                               !.header.nonce = h.nonce,
                               !.header.min_gas_price = h.min_gas_price]
    IN  IF made.ret # "Block" THEN made
        ELSE IF ~replayed.ok THEN Raised("AssertionError", RootsOf(replayed.block))
        ELSE IF \/ block.header.prevhash # hash_of(parent)
                \/ block.header.gas_used # h.gas_used
                \/ block.header.gas_limit # h.gas_limit
                \/ block.header.timestamp # h.timestamp
                \/ block.header.difficulty # h.difficulty
                \/ block.header.number # h.number
                \/ block.header.extra_data # h.extra_data
                \/ sha3(block.uncles) # h.uncles_hash
                \/ block.header.tx_list_root # h.tx_list_root
                \/ block.header.state_root # h.state_root
        THEN Raised("AssertionError", RootsOf(final))
        ELSE Produced(block, RootsOf(final))

\* Block.deserialize: the serialized parent comes out of the store by the
\* hash it was put under (get_block)
deserialize(db, d) ==
    LET h == d.header
        parents == {p \in db.blocks : hash_of(p.header) = h.prevhash}
    IN  IF h.state_root # EmptyMap /\ h.state_root \in db.roots
        THEN Block(db, h, d.transaction_list, d.uncles)
        ELSE IF h.prevhash = GENESIS_PREVHASH
        THEN Block(db, h, d.transaction_list, d.uncles)
        ELSE IF parents = {}
        THEN Raised("UnknownParentException", {})
        ELSE deserialize_child(db, (CHOOSE p \in parents : TRUE).header, d)

\* the header fields of the block object that its variables do not hold, as
\* the constructor was given them
ParentFields ==
    {[number |-> 0, difficulty |-> 2, timestamp |-> 0, gas_limit |-> GENESIS_GAS_LIMIT],
     [number |-> 7, difficulty |-> 2, timestamp |-> 70, gas_limit |-> MIN_GAS_LIMIT]}

\* Block.init_from_parent(parent, coinbase, extra_data, timestamp, uncles) is
\* called with the block object as parent.  Its first argument, parent.hash,
\* serializes the parent's header, which reads parent.state_root and so
\* calls commit_state (which a CachedBlock passes; it also keeps the hash it
\* computed first); parent.state.root_hash is read after that.
InitFromParent(p, cb, extra_data, timestamp, us) ==
    LET b == IF cls = "Block" THEN commit_state(NowCore, Held(snaps)) ELSE NowCore
        parent_hash == IF cls = "CachedBlock" /\ hash_cached # None
                       THEN hash_cached
                       ELSE object_hash(b.st, transactions, gas_used, coinbase)
        r == init_from_parent([roots |-> {b.st}, blocks |-> {}], parent_hash, b.st,
                              [number |-> p.number, difficulty |-> p.difficulty,
                               timestamp |-> p.timestamp, gas_limit |-> p.gas_limit,
                               gas_used |-> gas_used],
                              cb, extra_data, timestamp, us)
    IN  /\ WriteCore(b)
        /\ snaps' = IF cls = "Block" THEN Impure(snaps) ELSE snaps
        /\ hash_cached' = IF cls = "CachedBlock" THEN parent_hash ELSE hash_cached
        /\ built' = [op |-> "init_from_parent",
                     args |-> [parent |-> p, parent_hash |-> parent_hash,
                               parent_reads |-> Reads(caches, state),
                               parent_gas_used |-> gas_used,
                               coinbase |-> cb, extra_data |-> extra_data,
                               timestamp |-> timestamp, uncles |-> us],
                     ret |-> r]
        /\ last' = [op |-> "init_from_parent", ret |-> r.ret]
        /\ nops' = nops + 1
        /\ UNCHANGED <<cls, gas_used, transactions, transaction_count, coinbase,
                       uncles, sealed, expect, chainVars, peerVars, store>>

\* calc_gaslimit(parent) is called
CalcGaslimit(gas_limit, gas) ==
    /\ built' = [op |-> "calc_gaslimit",
                 args |-> [gas_limit |-> gas_limit, gas_used |-> gas],
                 ret |-> calc_gaslimit([gas_limit |-> gas_limit, gas_used |-> gas])]
    /\ last' = [op |-> "calc_gaslimit", ret |-> "None"]
    /\ nops' = nops + 1
    /\ UNCHANGED <<blockVars, chainVars, peerVars, store>>

\* the gas limits and the gas used of a parent that calc_gaslimit is tried on
GasLimits == {MIN_GAS_LIMIT, MIN_GAS_LIMIT + 123, GENESIS_GAS_LIMIT}
GasUsed == {0, 4, 104166, MIN_GAS_LIMIT}

\* Block.serialize of a block whose cache is committed
serialize(b) ==
    [header |-> b.header, transaction_list |-> b.transactions, uncles |-> b.uncles]

\* the state and the header of the genesis block (blocks.genesis): one
\* account holds the initial allocation
GenesisState == [a \in {"aa"} |-> [BlankAcct EXCEPT !.balance = 1]]

GenesisHeader ==
    [prevhash |-> GENESIS_PREVHASH, uncles_hash |-> sha3(<<>>), coinbase |-> "00",
     state_root |-> GenesisState, tx_list_root |-> tx_list_root(<<>>),
     difficulty |-> 2, number |-> 0, min_gas_price |-> 0,
     gas_limit |-> GENESIS_GAS_LIMIT, gas_used |-> 0, timestamp |-> 0,
     extra_data |-> "", nonce |-> GENESIS_NONCE]

\* the block a miner assembles on a parent: init_from_parent, the
\* transactions applied, finalize, and the nonce found
RECURSIVE apply_all(_, _)
apply_all(b, txs) ==
    IF txs = <<>> THEN b ELSE apply_all(apply_transaction(b, Head(txs)), Tail(txs))

Mined(db, parent, cb, timestamp, us, txs) ==
    LET made == init_from_parent(db, hash_of(parent), parent.state_root, parent,
                                 cb, "", timestamp, us)
    IN  serialize([finalized(apply_all(made.block, txs)) EXCEPT !.header.nonce = <<0>>])

\* a header whose block is not in the store
UnknownHeader == [GenesisHeader EXCEPT !.extra_data = "unknown"]

\* a serialized block as it may arrive: as mined, or with one part of it
\* altered
Altered(d) ==
    {d,
     [d EXCEPT !.header.nonce = <<3>>],
     [d EXCEPT !.header.nonce = <<>>],
     [d EXCEPT !.header.uncles_hash = sha3(<<UncleHeader("aa", "x")>>)],
     [d EXCEPT !.header.gas_used = @ + 1],
     [d EXCEPT !.header.number = @ + 1],
     [d EXCEPT !.header.coinbase = ""],
     [d EXCEPT !.header.state_root = GenesisState],
     [d EXCEPT !.header.prevhash = hash_of(UnknownHeader)],
     [d EXCEPT !.header.prevhash = GENESIS_PREVHASH]}
    \cup {[d EXCEPT !.transaction_list[k].gas_used = @ + 1,
                    !.header.tx_list_root =
                        tx_list_root([d.transaction_list EXCEPT ![k].gas_used = @ + 1])]
             : k \in DOMAIN d.transaction_list}

\* the serialized blocks offered to deserialize: mined on a block of the
\* store, 10 seconds after it
Offered(db) ==
    UNION {Altered(Mined(db, p.header, "aa", p.header.timestamp + 10, us, txs)) :
               p \in db.blocks,
               us \in {<<>>, <<UncleHeader("bb", "u")>>},
               txs \in {<<>>, <<"tx1", "tx2">>}}

\* Block.deserialize(rlpdata) is called; the state roots it wrote are in the
\* store afterwards
Deserialize(d) ==
    LET r == deserialize(store, d)
    IN  /\ built' = [op |-> "deserialize", args |-> [rlpdata |-> d, db |-> store],
                     ret |-> r]
        /\ store' = [store EXCEPT !.roots = @ \cup r.roots]
        /\ last' = [op |-> "deserialize", ret |-> r.ret]
        /\ nops' = nops + 1
        /\ UNCHANGED <<blockVars, chainVars, peerVars>>

MaxStore == 2
MaxBuilds == 3

\* the chain manager puts the block deserialize returned into the store
\* under its hash (the chain manager is outside this repository's sources)
PutBlock ==
    /\ last.op = "deserialize"
    /\ last.ret = "Block"
    /\ Cardinality(store.blocks) < MaxStore
    /\ store' = [store EXCEPT !.blocks = @ \cup {serialize(built.ret.block)}]
    /\ built' = built
    /\ last' = [op |-> "put_block", ret |-> "None"]
    /\ nops' = nops + 1
    /\ UNCHANGED <<blockVars, chainVars, peerVars>>

\* the store holds the genesis block and its state
InitStore ==
    /\ store = [roots |-> {GenesisState},
                blocks |-> {[header |-> GenesisHeader, transaction_list |-> <<>>,
                             uncles |-> <<>>]}]
    /\ built = <<>>

-----------------------------------------------------------------------------
\* The peer session (peer.py).  A packet is [cmd, data]; on the wire it is 4
\* bytes of magic, 4 bytes of payload length and the payload, whose first
\* unit is the command id and whose other units are the fields of data, each
\* field an integer standing for the bytes that encode it (packeter is outside
\* this repository's sources).  A list of blocks or of hashes is carried as
\* one field, its length.  A peer and what it did so far are threaded
\* together through the operators as s = [p |-> peer, t |-> trace].

MAX_GET_CHAIN_ACCEPT_HASHES == 2048
MAX_GET_CHAIN_SEND_HASHES == 2048
MAX_GET_CHAIN_ASK_BLOCKS == 512
MAX_GET_CHAIN_REQUEST_BLOCKS == 512
MAX_BLOCKS_SEND == MAX_GET_CHAIN_REQUEST_BLOCKS

\* packeter: the protocol versions, the network id, the magic of a packet
NETWORK_PROTOCOL_VERSION == 2
ETHEREUM_PROTOCOL_VERSION == 3
NETWORK_ID == 0
Magic == <<34, 64, 8, 145>>

\* packeter.cmd_map: the position of a command is its id + 1; any other id
\* is an unknown command
Cmds ==
    <<"Hello", "Disconnect", "Ping", "Pong", "GetPeers", "Peers", "Status",
      "Transactions", "Blocks", "GetTransactions", "GetBlockHashes",
      "BlockHashes", "GetBlocks">>
UnknownId == 99

\* hasattr(self, "_recv_" + cmd): Peer has a _recv_ method for each of them
Handled == Range(Cmds)

\* packeter.disconnect_reasons_map_by_id, the position of a reason is its
\* id + 1; Peer.reasons_to_forget
Reasons ==
    <<"Disconnect requested", "Bad protocol", "Incompatible network protocols",
      "Wrong genesis block">>
reasons_to_forget ==
    {"Bad protocol", "Incompatible network protocols", "Wrong genesis block"}

\* where x stands in the sequence q
IdOf(q, x) == (CHOOSE k \in DOMAIN q : q[k] = x) - 1

Packet(cmd, data) == [cmd |-> cmd, data |-> data]

\* packeter.dump_packet: the bytes of a packet
dump(pkt) ==
    Magic \o <<0, 0, 0, Len(pkt.data) + 1>>
          \o <<IF pkt.cmd \in Range(Cmds) THEN IdOf(Cmds, pkt.cmd) ELSE UnknownId>>
          \o pkt.data

\* packeter.packet_size: 8 and the payload length the header holds
packet_size(buffer) ==
    8 + ((buffer[5] * 256 + buffer[6]) * 256 + buffer[7]) * 256 + buffer[8]

\* packeter.load_cmd: the command, its data and the rest of the buffer, or
\* the failure to decode
load_cmd(buffer) ==
    LET size == packet_size(buffer)
        payload == SubSeq(buffer, 9, size)
    IN  IF \/ SubSeq(buffer, 1, 4) # Magic
           \/ payload = <<>>
        THEN [ok |-> FALSE]
        ELSE [ok |-> TRUE,
              cmd |-> IF payload[1] + 1 \in DOMAIN Cmds THEN Cmds[payload[1] + 1]
                      ELSE "None",
              data |-> Tail(payload),
              rest |-> SubSeq(buffer, size + 1, Len(buffer))]

\* an entry of the trace: the peer dispatched a packet, enqueued one, or
\* emitted a signal (arg is the forget flag of
\* peer_disconnect_requested, the count of get_block_hashes_received, the
\* number of blocks or hashes of a list)
Ev(ev, name, arg) == [ev |-> ev, name |-> name, arg |-> arg]

\* signals.<name>.send
signal(s, name, arg) == [s EXCEPT !.t = Append(@, Ev("signal", name, arg))]

\* Peer.send_packet with a queue that puts at the head (a variant the
\* claims are tried against)
send_packet_front(s, pkt) ==
    [s EXCEPT !.p.response_queue = <<pkt>> \o @,
              !.t = Append(@, Ev("enqueue", pkt.cmd, pkt.data))]

\* Peer.send_packet
send_packet(s, pkt) ==
    [s EXCEPT !.p.response_queue = Append(@, pkt),
              !.t = Append(@, Ev("enqueue", pkt.cmd, pkt.data))]

\* Peer.send_Hello without the assignment to hello_sent (a variant the
\* claims are tried against)
send_Hello_unmarked(s) ==
    send_packet(s, Packet("Hello", <<NETWORK_PROTOCOL_VERSION, 1, 1, 1, 1>>))

\* Peer.send_Hello
send_Hello(s) ==
    [send_packet(s, Packet("Hello", <<NETWORK_PROTOCOL_VERSION, 1, 1, 1, 1>>))
        EXCEPT !.p.hello_sent = TRUE]

\* Peer.send_Disconnect with forget = True whatever the reason (a variant
\* the claims are tried against)
send_Disconnect_forget(s, reason) ==
    signal(send_packet(s, Packet("Disconnect", <<IdOf(Reasons, reason)>>)),
           "peer_disconnect_requested", <<"True">>)

\* Peer.send_Disconnect
send_Disconnect(s, reason) ==
    signal(send_packet(s, Packet("Disconnect", <<IdOf(Reasons, reason)>>)),
           "peer_disconnect_requested",
           <<IF reason \in reasons_to_forget THEN "True" ELSE "False">>)

\* Peer._recv_Hello with the fields stored only after the version check (a
\* variant the claims are tried against)
recv_Hello_checked(s, data) ==
    IF Len(data) # 5
    THEN send_Disconnect(s, "Incompatible network protocols")
    ELSE IF data[1] # NETWORK_PROTOCOL_VERSION
         THEN send_Disconnect(s, "Incompatible network protocols")
         ELSE LET got == [s EXCEPT !.p.hello_received = TRUE,
                                    !.p.capabilities = data[3],
                                    !.p.client_version = data[2],
                                    !.p.node_id = data[5],
                                    !.p.port = data[4]]
              IN  signal(IF s.p.hello_sent THEN got ELSE send_Hello(got),
                         "peer_handshake_success", <<>>)

\* Peer._recv_Hello: decoding a list of more or fewer than 5 fields raises
\* IndexError before anything is assigned
recv_Hello(s, data) ==
    IF Len(data) # 5
    THEN send_Disconnect(s, "Incompatible network protocols")
    ELSE LET read == [s EXCEPT !.p.capabilities = data[3]]
         IN  IF data[1] # NETWORK_PROTOCOL_VERSION
             THEN send_Disconnect(read, "Incompatible network protocols")
             ELSE LET got == [read EXCEPT !.p.hello_received = TRUE,
                                          !.p.client_version = data[2],
                                          !.p.node_id = data[5],
                                          !.p.port = data[4]]
                  IN  signal(IF read.p.hello_sent THEN got ELSE send_Hello(got),
                             "peer_handshake_success", <<>>)

\* blocks.genesis().hash, as a field of a Status packet
GenesisHash == 7

\* Peer._recv_Status without the comparison of the genesis hashes (a
\* variant the claims are tried against)
recv_Status_any_genesis(s, data) ==
    IF Len(data) < 5
    THEN send_Disconnect(s, "Incompatible network protocols")
    ELSE IF data[1] # ETHEREUM_PROTOCOL_VERSION
    THEN send_Disconnect(s, "Incompatible network protocols")
    ELSE IF data[2] # NETWORK_ID
    THEN send_Disconnect(s, "Wrong genesis block")
    ELSE signal([s EXCEPT !.p.status_received = TRUE,
                          !.p.status_head_hash = data[4],
                          !.p.status_total_difficulty = data[3]],
                "peer_status_received", <<>>)

\* Peer._recv_Status
recv_Status(s, data) ==
    IF Len(data) < 5
    THEN send_Disconnect(s, "Incompatible network protocols")
    ELSE IF data[1] # ETHEREUM_PROTOCOL_VERSION
    THEN send_Disconnect(s, "Incompatible network protocols")
    ELSE IF data[2] # NETWORK_ID
    THEN send_Disconnect(s, "Wrong genesis block")
    ELSE IF data[5] # GenesisHash
    THEN send_Disconnect(s, "Wrong genesis block")
    ELSE signal([s EXCEPT !.p.status_received = TRUE,
                          !.p.status_head_hash = data[4],
                          !.p.status_total_difficulty = data[3]],
                "peer_status_received", <<>>)

\* an exception no handler catches: it leaves _process_recv_buffer,
\* _process_recv and loop_body (which catches IOError only) and ends the
\* thread of the peer
unhandled(s) == [s EXCEPT !.p.pc = "crashed"]

\* Peer._recv_Disconnect: a reason id that is not in the map is a KeyError
recv_Disconnect(s, data) ==
    IF Len(data) > 0 /\ data[1] + 1 \notin DOMAIN Reasons
    THEN unhandled(s)
    ELSE signal(s, "peer_disconnect_requested",
                <<IF Len(data) = 0 THEN "None"
                  ELSE IF Reasons[data[1] + 1] \in reasons_to_forget THEN "True"
                  ELSE "False">>)

\* getattr(self, "_recv_" + cmd)(data); _recv_GetBlockHashes reads data[1],
\* an IndexError when the field is missing
dispatch(s, cmd, data) ==
    CASE cmd = "Hello" -> recv_Hello(s, data)
      [] cmd = "Status" -> recv_Status(s, data)
      [] cmd = "Disconnect" -> recv_Disconnect(s, data)
      [] cmd = "Ping" -> send_packet(s, Packet("Pong", <<>>))
      [] cmd = "Pong" -> s
      [] cmd = "GetPeers" -> signal(s, "getpeers_received", <<>>)
      [] cmd = "Peers" -> signal(s, "peer_addresses_received", data)
      [] cmd = "GetTransactions" -> signal(s, "gettransactions_received", <<>>)
      [] cmd = "Transactions" -> signal(s, "remote_transactions_received", data)
      [] cmd = "Blocks" -> signal(s, "remote_blocks_received", data)
      [] cmd = "GetBlocks" -> signal(s, "get_blocks_received", data)
      [] cmd = "GetBlockHashes" ->
             IF Len(data) < 2 THEN unhandled(s)
             ELSE signal(s, "get_block_hashes_received", <<data[2]>>)
      [] cmd = "BlockHashes" -> signal(s, "remote_block_hashes_received", data)

\* Peer._process_recv_buffer
process_recv_buffer(s) ==
    LET loaded == load_cmd(s.p.recv_buffer)
    IN  IF ~loaded.ok
        THEN send_Disconnect([s EXCEPT !.p.recv_buffer = <<>>], "Bad protocol")
        ELSE LET good == [s EXCEPT !.p.recv_buffer = loaded.rest,
                                   !.p.last_valid_packet_received = @ + 1]
             IN  IF loaded.cmd \notin Handled
                 THEN good
                 ELSE dispatch([good EXCEPT !.t = Append(@, Ev("dispatch", loaded.cmd,
                                                              loaded.data))],
                               loaded.cmd, loaded.data)

\* the inner loop of Peer._process_recv as an if: at most one packet is
\* processed for each recv (a variant the claims are tried against)
process_packets_once(s) ==
    IF /\ Len(s.p.recv_buffer) >= 8
       /\ Len(s.p.recv_buffer) >= packet_size(s.p.recv_buffer)
    THEN process_recv_buffer(s)
    ELSE s

\* Peer._process_recv, the inner loop: while the buffer holds a whole packet
\* (and no exception left the loop)
RECURSIVE process_packets(_)
process_packets(s) ==
    IF /\ s.p.pc # "crashed"
       /\ Len(s.p.recv_buffer) >= 8
       /\ Len(s.p.recv_buffer) >= packet_size(s.p.recv_buffer)
    THEN process_packets(process_recv_buffer(s))
    ELSE s

\* the peer and the trace, as the operators above thread them
Now == [p |-> peer, t |-> trace]

Became(s) ==
    /\ peer' = s.p
    /\ trace' = s.t

\* a call of a method of the peer from another thread is counted and
\* recorded with its arguments
PeerCalled(op, args, ret) ==
    /\ last' = [op |-> op, ret |-> ret]
    /\ built' = [op |-> op, args |-> args, ret |-> ret]
    /\ nops' = nops + 1
    /\ UNCHANGED <<blockVars, chainVars, store>>

\* a step of the loop of the peer, or of the remote side
PeerStepped == UNCHANGED <<blockVars, chainVars, buildVars, last, nops>>

\* Peer.send_Blocks without its assert (a variant the claims are tried
\* against)
send_Blocks_unchecked(s, blocks) ==
    [exc |-> "None", s |-> send_packet(s, Packet("Blocks", <<blocks>>))]

\* Peer.send_Blocks, for a list of so many blocks: the exception it raises
\* and the peer after it
send_Blocks(s, blocks) ==
    IF blocks <= MAX_BLOCKS_SEND
    THEN [exc |-> "None", s |-> send_packet(s, Packet("Blocks", <<blocks>>))]
    ELSE [exc |-> "AssertionError", s |-> s]

\* Peer.send_GetBlocks, for a list of so many hashes
send_GetBlocks(s, block_hashes) == send_packet(s, Packet("GetBlocks", <<block_hashes>>))

\* Peer.send_BlockHashes, for a list of so many hashes
send_BlockHashes(s, block_hashes) == send_packet(s, Packet("BlockHashes", <<block_hashes>>))

\* Peer.send_GetBlockHashes
send_GetBlockHashes(s, from_hash, max_blocks) ==
    send_packet(s, Packet("GetBlockHashes", <<from_hash, max_blocks>>))

SendBlocks(blocks) ==
    LET r == send_Blocks(Now, blocks)
    IN  /\ Became(r.s)
        /\ UNCHANGED sock
        /\ PeerCalled("send_Blocks", [blocks |-> blocks], r.exc)

SendGetBlocks(block_hashes) ==
    /\ Became(send_GetBlocks(Now, block_hashes))
    /\ UNCHANGED sock
    /\ PeerCalled("send_GetBlocks", [block_hashes |-> block_hashes], "None")

SendBlockHashes(block_hashes) ==
    /\ Became(send_BlockHashes(Now, block_hashes))
    /\ UNCHANGED sock
    /\ PeerCalled("send_BlockHashes", [block_hashes |-> block_hashes], "None")

SendGetBlockHashes(from_hash, max_blocks) ==
    /\ Became(send_GetBlockHashes(Now, from_hash, max_blocks))
    /\ UNCHANGED sock
    /\ PeerCalled("send_GetBlockHashes", [max_blocks |-> max_blocks], "None")

\* the remote side sent a packet: its bytes are under way
Arrive(pkt) ==
    /\ sock' = [sock EXCEPT !.inbound = @ \o dump(pkt), !.arrived = Append(@, pkt)]
    /\ UNCHANGED <<peer, trace>>
    /\ PeerStepped

\* Peer._process_recv, one round of the outer loop in which recv returns n
\* bytes: they are appended to the buffer and the whole packets in it are
\* processed
Recv(n) ==
    /\ peer.pc = "recv"
    /\ ~peer.stopped
    /\ n \in 1..Len(sock.inbound)
    /\ sock' = [sock EXCEPT !.inbound = SubSeq(@, n + 1, Len(@))]
    /\ Became(process_packets([Now EXCEPT !.p.recv_buffer =
                                   @ \o SubSeq(sock.inbound, 1, n)]))
    /\ PeerStepped

\* Peer._process_recv: recv times out (socket.error), the loop breaks and
\* loop_body returns; the next tick starts.  Once the remote side has closed
\* and all its bytes are read, recv returns at once and never times out.
RecvTimeout ==
    /\ peer.pc = "recv"
    /\ ~peer.stopped
    /\ ~(sock.closed /\ sock.inbound = <<>>)
    /\ peer' = [peer EXCEPT !.pc = "send"]
    /\ UNCHANGED <<sock, trace>>
    /\ PeerStepped

\* Peer._process_send at the start of a tick: the packet at the head of the
\* queue, if any, is written to the socket
ProcessSend ==
    /\ peer.pc = "send"
    /\ ~peer.stopped
    /\ IF peer.response_queue = <<>>
       THEN /\ peer' = [peer EXCEPT !.pc = "recv"]
            /\ UNCHANGED sock
       ELSE /\ peer' = [peer EXCEPT !.pc = "recv", !.response_queue = Tail(@)]
            /\ sock' = [sock EXCEPT !.written = Append(@, Head(peer.response_queue))]
    /\ UNCHANGED trace
    /\ PeerStepped

\* the remote side sent bytes that are no packet
ArriveRaw(bytes) ==
    /\ sock' = [sock EXCEPT !.inbound = @ \o bytes,
                            !.arrived = Append(@, Packet("Raw", bytes))]
    /\ UNCHANGED <<peer, trace>>
    /\ PeerStepped

\* the remote side closed the connection in an orderly way
RemoteClose ==
    /\ ~sock.closed
    /\ sock' = [sock EXCEPT !.closed = TRUE]
    /\ UNCHANGED <<peer, trace>>
    /\ PeerStepped

\* Peer._process_recv, one round of the outer loop after the remote side
\* closed: recv returns the empty string, which raises nothing, the buffer
\* is as before and holds no whole packet, and the outer loop goes on.
\* The empty reads are counted modulo 2.
RecvEof ==
    /\ peer.pc = "recv"
    /\ ~peer.stopped
    /\ sock.closed
    /\ sock.inbound = <<>>
    /\ sock' = [sock EXCEPT !.empty_reads = (@ + 1) % 2]
    /\ UNCHANGED <<peer, trace>>
    /\ PeerStepped

\* Peer._process_recv in two steps, with room for the other threads between
\* them: recv returns n bytes, which are appended to the buffer
RecvBytes(n) ==
    /\ peer.pc = "recv"
    /\ ~peer.stopped
    /\ n \in 1..Len(sock.inbound)
    /\ sock' = [sock EXCEPT !.inbound = SubSeq(@, n + 1, Len(@))]
    /\ peer' = [peer EXCEPT !.recv_buffer = @ \o SubSeq(sock.inbound, 1, n),
                            !.pc = "parse"]
    /\ UNCHANGED trace
    /\ PeerStepped

\* one test of the inner loop of Peer._process_recv, which does not look at
\* stopped(): a whole packet in the buffer is processed, and without one
\* the outer loop goes on
ProcessPacket ==
    /\ peer.pc = "parse"
    /\ IF /\ Len(peer.recv_buffer) >= 8
          /\ Len(peer.recv_buffer) >= packet_size(peer.recv_buffer)
       THEN Became(process_recv_buffer(Now))
       ELSE peer' = [peer EXCEPT !.pc = "recv"] /\ UNCHANGED trace
    /\ UNCHANGED sock
    /\ PeerStepped

\* Peer.stop, called from another thread: the flag is set and the socket is
\* shut down and closed
Stop ==
    /\ ~peer.stopped
    /\ peer.pc \notin {"exited", "crashed"}
    /\ peer' = [peer EXCEPT !.stopped = TRUE]
    /\ UNCHANGED <<sock, trace>>
    /\ PeerStepped

\* the loop of a stopped peer: at the head of a tick either run() sees the
\* flag and leaves, or the flag was set after run() looked and
\* _process_send pops a packet, if there is one, before connection() raises
\* IOError; in _process_recv connection() raises IOError.  loop_body
\* catches it, calls stop and returns, and run() leaves.
TickStopped ==
    /\ peer.stopped
    /\ \/ /\ peer.pc \in {"send", "recv"}
          /\ peer' = [peer EXCEPT !.pc = "exited"]
       \/ /\ peer.pc = "send"
          /\ peer.response_queue # <<>>
          /\ peer' = [peer EXCEPT !.pc = "exited", !.response_queue = Tail(@)]
    /\ UNCHANGED <<sock, trace>>
    /\ PeerStepped

\* Peer._process_send when sendall raises socket.error: the packet is
\* popped, the peer stops itself, and connection() in _process_recv raises
\* IOError, which ends the tick
SendFails ==
    /\ peer.pc = "send"
    /\ ~peer.stopped
    /\ peer.response_queue # <<>>
    /\ peer' = [peer EXCEPT !.pc = "exited", !.stopped = TRUE,
                            !.response_queue = Tail(@)]
    /\ UNCHANGED <<sock, trace>>
    /\ PeerStepped

\* Peer.send_Hello, called from another thread (the side that connects
\* says Hello first)
SendHello ==
    /\ Became(send_Hello(Now))
    /\ UNCHANGED sock
    /\ PeerCalled("send_Hello", <<>>, "None")

\* Peer.send_Disconnect, called from another thread
SendDisconnect(reason) ==
    /\ Became(send_Disconnect(Now, reason))
    /\ UNCHANGED sock
    /\ PeerCalled("send_Disconnect", [reason |-> reason], "None")

-----------------------------------------------------------------------------
\* The block after construction

\* the state tries a block is opened at: the blank root (genesis), or the
\* state root of a parent that holds an account with every field set
ParentStates ==
    {EmptyMap,
     [a \in {"aa"} |-> [nonce |-> 1, balance |-> 1, storage |-> [i \in {1} |-> 1],
                        code |-> "c1"]]}

\* the accounts of a trie a block is opened at, absent ones blank
Opened(st) ==
    [nonce |-> [a \in Addr |-> IF a \in DOMAIN st THEN st[a].nonce ELSE 0],
     balance |-> [a \in Addr |-> IF a \in DOMAIN st THEN st[a].balance ELSE 0],
     code |-> [a \in Addr |-> IF a \in DOMAIN st THEN st[a].code ELSE ""],
     storage |-> [a \in Addr |-> [i \in Index |->
                    IF a \in DOMAIN st /\ i \in DOMAIN st[a].storage
                    THEN st[a].storage[i] ELSE 0]]]

\* Block.__init__ (and create_cached, which sets the class): empty caches and
\* journal, no transaction
InitBlock(class) ==
    /\ cls = class
    /\ caches = EmptyCaches
    /\ journals = << <<>> >>
    /\ journal = 1
    /\ state \in ParentStates
    /\ gas_used = 0
    /\ transactions = <<>>
    /\ transaction_count = 0
    /\ hash_cached = None
    /\ snaps = <<>>
    /\ sealed = FALSE
    /\ expect = Opened(state)
    /\ last = [op |-> "init", ret |-> "None"]
    /\ nops = 0

vars == <<blockVars, chainVars, buildVars, peerVars, last, nops>>

\* A block being assembled: its cache and journal under account writes,
\* snapshot, revert and commit
Init ==
    /\ InitBlock("Block")
    /\ coinbase = "aa"
    /\ uncles = <<>>
    /\ InitChain

Next ==
    \/ Within(MaxOps) /\ \E a \in Addr, v \in Vals : SetNonce(a, v)
    \/ Within(MaxOps) /\ \E a \in Addr, v \in Vals : SetBalance(a, v)
    \/ Within(MaxOps) /\ \E a \in Addr, v \in Vals \ {0} : (DeltaBalance(a, v) \/ DeltaBalance(a, 0 - v))
    \/ Within(MaxOps) /\ \E from \in Addr, to \in Addr, v \in Vals : TransferValue(from, to, v)
    \/ Within(MaxOps) /\ \E a \in Addr, code \in Codes : SetCode(a, code)
    \/ Within(MaxOps) /\ \E a \in Addr, i \in Index, v \in Vals : SetStorageData(a, i, v)
    \/ Within(MaxOps) /\ CommitState
    \/ Within(MaxOps) /\ Snapshot
    \/ Within(MaxOps) /\ \E k \in 1..MaxSnaps : Revert(k)

Spec == Init /\ [][Next]_vars

-----------------------------------------------------------------------------
\* Claims about the cache and the journal (Spec)

\* the snapshot the last revert went back to (Revert leaves it on top)
Reverted == snaps[Len(snaps)]

\* C1 (as claimed): after s = snapshot(), account writes with nested
\* snapshot/revert pairs, and revert(s), every cache map (the set of storage
\* sub-maps included), the journal, the state root and gas_used are what they
\* were when snapshot() was called.
C1_JournalRevert ==
    (last.op = "revert" /\ Reverted.pure) =>
        /\ last.ret = "None"
        /\ caches = Reverted.at.caches
        /\ Journal = Reverted.at.journal
        /\ state = Reverted.at.state
        /\ gas_used = Reverted.at.gas_used

\* the entries of journal j for the same (cache, key) as its n-th entry
SameKey(j, n) ==
    {m \in 1..Len(j) : /\ j[m].cache = j[n].cache
                       /\ j[m].addr = j[n].addr
                       /\ j[m].index = j[n].index}

\* the largest element of a non-empty set of numbers
Max(S) == CHOOSE x \in S : \A y \in S : y <= x

\* C4 (as claimed): commit_state() twice in succession leaves what one call
\* leaves, and after commit_state() the journal is empty and the caches are
\* the four empty maps with no storage sub-map.
C4_CommitIdempotent ==
    /\ commit_state(commit_state(NowCore, Held(snaps)), Held(snaps))
           = commit_state(NowCore, Held(snaps))
    /\ last.op = "commit_state" => Journal = <<>> /\ caches = EmptyCaches

\* C6 (as claimed): the cache agrees with the journal in every reachable
\* state: the latest entry of each (cache, key) has post = caches[cache][key],
\* each entry's prev is the post of the entry before it for that key, or None
\* when there is none, and no entry records a write of the value already there.
C6_JournalConsistent ==
    \A n \in 1..Len(Journal) :
        LET e == Journal[n]
            before == {m \in SameKey(Journal, n) : m < n}
            after == {m \in SameKey(Journal, n) : m > n}
        IN  /\ after = {} =>
                /\ HasCache(caches, e.cache, e.addr)
                /\ Get(CacheOf(caches, e.cache, e.addr),
                       KeyOf(e.cache, e.addr, e.index), None) = e.post
            /\ e.prev = IF before = {} THEN None ELSE Journal[Max(before)].post
            /\ e.prev # e.post

-----------------------------------------------------------------------------
\* Balances (SpecBalance): the operations that write a balance, with
\* snapshot, revert and commit

NextBalance ==
    \/ Within(MaxOps) /\ \E a \in Addr, v \in Vals : SetBalance(a, v)
    \/ Within(MaxOps) /\ \E a \in Addr, v \in Vals \ {0} : (DeltaBalance(a, v) \/ DeltaBalance(a, 0 - v))
    \/ Within(MaxOps) /\ \E from \in Addr, to \in Addr, v \in Vals : TransferValue(from, to, v)
    \/ Within(MaxOps) /\ CommitState
    \/ Within(MaxOps) /\ Snapshot
    \/ Within(MaxOps) /\ \E k \in 1..MaxSnaps : Revert(k)

SpecBalance == Init /\ [][NextBalance]_vars

\* what get_balance returns for every address
Balances(c, st) == [a \in Addr |-> get_balance(c, st, a)]

\* C3: delta_balance(a, -x) with x > balance(a) returns False, changes no
\* cache and appends no journal entry; transfer_value(from, to, v) with
\* v > balance(from) returns False and leaves both balances, the caches and
\* the journal as they were; and no balance read is negative in any state.
C3_BalanceUnderflow ==
    /\ [](\A a \in Addr : get_balance(caches, state, a) >= 0)
    /\ [][/\ \A a \in Addr, x \in Vals :
                (x > get_balance(caches, state, a) /\ DeltaBalance(a, 0 - x)) =>
                    /\ last'.ret = "False"
                    /\ caches' = caches
                    /\ journals' = journals
          /\ \A from \in Addr, to \in Addr, v \in Vals :
                (v > get_balance(caches, state, from) /\ TransferValue(from, to, v)) =>
                    /\ last'.ret = "False"
                    /\ caches' = caches
                    /\ journals' = journals
                    /\ Balances(caches', state') = Balances(caches, state)
         ]_vars

\* a transfer was refused for lack of funds while the other account had some
C3_Witness ==
    /\ last.op = "transfer_value"
    /\ last.ret = "False"
    /\ \E a \in Addr : get_balance(caches, state, a) > 0
    /\ \E a \in Addr : get_balance(caches, state, a) = 0

-----------------------------------------------------------------------------
\* Reads and writes across commit (SpecCommit): account writes and
\* commit_state, no revert

NextCommit ==
    \/ Within(MaxOps) /\ \E a \in Addr, v \in Vals : SetNonce(a, v)
    \/ Within(MaxOps) /\ \E a \in Addr, v \in Vals : SetBalance(a, v)
    \/ Within(MaxOps) /\ \E a \in Addr, v \in Vals \ {0} : (DeltaBalance(a, v) \/ DeltaBalance(a, 0 - v))
    \/ Within(MaxOps) /\ \E a \in Addr, code \in Codes : SetCode(a, code)
    \/ Within(MaxOps) /\ \E a \in Addr, i \in Index, v \in Vals : SetStorageData(a, i, v)
    \/ Within(MaxOps) /\ CommitState

\* the block is opened at the parent's state: one account with every field
\* set, the other absent
InitCommit == Init /\ state # EmptyMap

SpecCommit == InitCommit /\ [][NextCommit]_vars

\* C5: without revert, every read (get_nonce, get_balance, get_code,
\* get_storage_data) returns the most recent successful write to its
\* (address, field[, index]), or what the block was opened with (the default
\* 0 / empty for an account the trie does not hold) if there was none; so
\* commit_state changes no read and a storage value written 0 reads 0 before
\* and after commit.
C5_ReadYourWrites == Reads(caches, state) = expect

\* a commit wrote back an account whose storage value had been set to 0
C5_Witness ==
    /\ last.op = "commit_state"
    /\ caches = EmptyCaches
    /\ \E a \in DOMAIN state : /\ state[a].nonce = 1
                               /\ state[a].storage = EmptyMap
                               /\ expect.storage[a][1] = 0
                               /\ expect.nonce[a] = 1

-----------------------------------------------------------------------------
\* The transaction list (SpecTx): transactions appended while gas is used and
\* a balance is written, with snapshot and revert

NextTx ==
    \/ Within(MaxOps) /\ \E tx \in Txs : AddTransactionToList(tx)
    \/ Within(MaxOps) /\ \E a \in Addr, v \in Vals : SetBalance(a, v)
    \/ Within(MaxOps) /\ UseGas
    \/ Within(MaxOps) /\ Snapshot
    \/ Within(MaxOps) /\ \E k \in 1..MaxSnaps : Revert(k)

SpecTx == Init /\ [][NextTx]_vars

\* C2 (as claimed): after s = snapshot(), appending transactions, and
\* revert(s), the transaction count, tx_list_root and the list returned by
\* _list_transactions are what they were when snapshot() was called.
C2_RevertRestoresTxList ==
    (last.op = "revert" /\ last.ret = "None") =>
        /\ transaction_count = Reverted.at.transaction_count
        /\ list_transactions(transactions, transaction_count)
               = list_transactions(Reverted.at.transactions,
                                   Reverted.at.transaction_count)
        /\ tx_list_root(transactions) = tx_list_root(Reverted.at.transactions)

\* the part of C2 the code keeps: the count and the list read through it
C2_CountAndListRestored ==
    (last.op = "revert" /\ last.ret = "None") =>
        /\ transaction_count = Reverted.at.transaction_count
        /\ list_transactions(transactions, transaction_count)
               = list_transactions(Reverted.at.transactions,
                                   Reverted.at.transaction_count)

-----------------------------------------------------------------------------
\* The dirty set (Spec)

\* the addresses with an entry in the balance, nonce or code cache or with a
\* non-empty storage sub-map
Cached(c) ==
    DOMAIN c.balance \cup DOMAIN c.nonce \cup DOMAIN c.code
        \cup {a \in DOMAIN c.storage : DOMAIN c.storage[a] # {}}

\* C30 (as claimed): in every state of a mutable block, whatever the account
\* writes, set_storage_data, snapshot, revert and commit_state calls before
\* it, every address with an entry in the balance, nonce or code cache or
\* with a non-empty storage sub-map is a key of the `all` cache.
C30_DirtySet == Cached(caches) \subseteq DOMAIN caches.all

-----------------------------------------------------------------------------
\* Revert across a commit (Spec)

\* Block.get_state_root: commit_state, then the root of the state trie
get_state_root(c, j, st) == commit_state(Core(c, <<j>>, 1, st), {}).st

\* C31 (as claimed): when commit_state ran between s = snapshot() and
\* revert(s), revert(s) completes without error, and after it every account
\* read (nonce, balance, code, storage) returns what it returned when the
\* snapshot was taken and the state root is the state root of that time.
C31_RevertAcrossCommit ==
    (last.op = "revert" /\ ~Reverted.pure) =>
        /\ last.ret = "None"
        /\ Reads(caches, state) = Reads(Reverted.at.caches, Reverted.at.state)
        /\ get_state_root(caches, Journal, state)
               = get_state_root(Reverted.at.caches, Reverted.at.journal, Reverted.at.state)

\* the part of C31 the code keeps: a revert across a commit that raises
\* nothing puts the root of the state trie back to that of the snapshot
C31_RootPointerRestored ==
    (last.op = "revert" /\ ~Reverted.pure /\ last.ret = "None") =>
        state = Reverted.at.state

-----------------------------------------------------------------------------
\* Uncle validation (SpecUncles): blocks arrive as children of the head of a
\* growing chain and validate_uncles is called on them

NextUncles ==
    \/ \E us \in UncleLists(chain) : ValidateUncles(us, sha3(us))
    \/ \E us \in UncleLists(chain) : ValidateUncles(us, sha3(<<Orphan, Orphan, Orphan>>))
    \/ ValidateOwnHeader(sha3(<<>>))
    \/ \E us \in {<<>>, <<UncleOn(Genesis, 0), UncleOn(Genesis, 0)>>} : ValidateOrphan(us)
    \/ Len(chain) < MaxChain /\ AddBlock
    \/ DropBlock

\* the store at genesis; the block under assembly takes no step
InitUncles == Init /\ state = EmptyMap

SpecUncles == InitUncles /\ [][NextUncles]_vars

\* the hashes of the blocks g generations before the child of the head, for
\* g in 2..7 as far as the chain goes back
EligibleParents ==
    {block_hash(chain[Len(chain) - g + 1]) : g \in {g \in 2..7 : g <= Len(chain)}}

\* C10: validate_uncles(B) returns True only if sha3(encode(B.uncles)) is
\* B.uncles_hash, every uncle header passes the PoW check and every uncle's
\* prevhash is the hash of an ancestor of B 2 to 7 generations back; so an
\* uncle on B's parent is rejected.
C10_UncleParentEligible ==
    (last = [op |-> "validate_uncles", ret |-> "True"]) =>
        /\ sha3(cand.uncles) = cand.header.uncles_hash
        /\ \A k \in DOMAIN cand.uncles :
              /\ cand.uncles[k].nonce < HashSpace \div cand.uncles[k].difficulty
              /\ cand.uncles[k].prevhash \in EligibleParents
              /\ cand.uncles[k].prevhash # cand.header.prevhash

\* a block with two uncles was accepted, one on its ancestor of generation 2
\* and one on its ancestor of generation 7, its generation 8 being in the store
C10_Witness ==
    /\ last = [op |-> "validate_uncles", ret |-> "True"]
    /\ Len(chain) >= 8
    /\ Len(cand.uncles) = 2
    /\ cand.uncles[1].prevhash = block_hash(chain[Len(chain) - 1])
    /\ cand.uncles[2].prevhash = block_hash(chain[Len(chain) - 6])

\* the blocks of the store among the 7 ancestors of block b
Ancestors7(b) ==
    IF get_block(chain, b.header.prevhash) = {}
    THEN {}
    ELSE {chain[k] : k \in {k \in DOMAIN chain : /\ k <= b.header.number
                                                 /\ k > b.header.number - 7}}

\* an uncle of b is the header of b or of one of its 7 ancestors, or an uncle
\* one of those ancestors includes, or is listed twice
Ineligible(b) ==
    \/ \E i \in DOMAIN b.uncles : b.uncles[i] = b.header
    \/ \E i \in DOMAIN b.uncles, a \in Ancestors7(b) : b.uncles[i] = a.header
    \/ \E i \in DOMAIN b.uncles, a \in Ancestors7(b) :
          \E j \in DOMAIN a.uncles : b.uncles[i] = a.uncles[j]
    \/ \E i \in DOMAIN b.uncles, j \in DOMAIN b.uncles :
          i # j /\ b.uncles[i] = b.uncles[j]

-----------------------------------------------------------------------------
\* The difficulty recurrence (SpecDifficulty)

NextDifficulty ==
    \E d_p \in Difficulties, t_p \in ParentTimes, t \in Times : CalcDifficulty(d_p, t_p, t)

\* the parent block is opened at the blank root
InitDifficulty == Init /\ state = EmptyMap

SpecDifficulty == InitDifficulty /\ [][NextDifficulty]_vars

\* C15: calc_difficulty returns d_p + floor(d_p / 1024) when t - t_p < 5, a
\* child timestamp at or before the parent's included, and
\* d_p - floor(d_p / 1024) otherwise; d_p = 131072 and t_p = 1000 give 131200
\* for t = 1004 and 130944 for t = 1010.
C15_DifficultyRecurrence ==
    (built # <<>> /\ built.op = "calc_difficulty") =>
        LET d_p == built.args.difficulty
            t_p == built.args.parent_timestamp
            t == built.args.timestamp
        IN  /\ t - t_p < 5 => built.ret = d_p + (d_p \div 1024)
            /\ t <= t_p => built.ret = d_p + (d_p \div 1024)
            /\ t - t_p >= 5 => built.ret = d_p - (d_p \div 1024)
            /\ (d_p = 131072 /\ t_p = 1000 /\ t = 1004) => built.ret = 131200
            /\ (d_p = 131072 /\ t_p = 1000 /\ t = 1010) => built.ret = 130944

\* the difficulty fell from 131072 to 130944 for a child 10 seconds after
\* its parent
C15_Witness ==
    /\ built # <<>>
    /\ built.op = "calc_difficulty"
    /\ built.args.difficulty = 131072
    /\ built.args.parent_timestamp = 1000
    /\ built.args.timestamp = 1010
    /\ built.ret = 130944

-----------------------------------------------------------------------------
\* Deserialization (SpecDeserialize): serialized blocks arrive, as mined or
\* altered, and the blocks deserialize returns are put into the store

InitDeserialize ==
    /\ InitBlock("Block")
    /\ state = EmptyMap
    /\ coinbase = "aa"
    /\ uncles = <<>>
    /\ chain = <<Genesis>>
    /\ cand = <<>>
    /\ InitStore
    /\ InitPeer

NextDeserialize ==
    \/ Within(MaxBuilds) /\ \E d \in Offered(store) : Deserialize(d)
    \/ Within(MaxBuilds) /\ PutBlock

SpecDeserialize == InitDeserialize /\ [][NextDeserialize]_vars

\* the block the last constructing call returned
Returned == built.ret.block

\* C12 (as claimed): every block the constructor or deserialize returns,
\* on the direct path or on the replay path, that is not the genesis block
\* and has a non-empty nonce has a header that passes the PoW check.
C12_PowInvariant ==
    (built # <<>> /\ built.op = "deserialize" /\ built.ret.ret = "Block") =>
        ((~is_genesis(Returned.header) /\ Returned.header.nonce # <<>>) =>
            check_header_pow(PowHeader(Returned.header)))

\* C13 (as claimed): every block the constructor, init_from_parent or
\* deserialize returns has uncles_hash = sha3(encode(uncles)).
C13_UnclesHashInvariant ==
    (built # <<>> /\ built.op = "deserialize" /\ built.ret.ret = "Block") =>
        Returned.header.uncles_hash = sha3(Returned.uncles)

\* C14: deserialize constructs the block directly when its state_root is in
\* the store or its prevhash is the genesis sentinel; otherwise, when the
\* parent is not in the store, it raises UnknownParentException and the store
\* is as before the call; and when the parent is in the store, the block it
\* returns has every transaction entry (state root and cumulative gas after
\* the transaction) and every header field as recorded in the input.
C14_DeserializePath ==
    (built # <<>> /\ built.op = "deserialize" /\ last.op = "deserialize") =>
        LET d == built.args.rlpdata
            db == built.args.db
            direct == d.header.state_root \in db.roots
                          \/ d.header.prevhash = GENESIS_PREVHASH
            known == \E p \in db.blocks : sha3(p.header) = d.header.prevhash
        IN  /\ direct => built.ret = Block(db, d.header, d.transaction_list, d.uncles)
            /\ (~direct /\ ~known) =>
                  /\ built.ret.ret = "UnknownParentException"
                  /\ store = db
            /\ (~direct /\ known /\ built.ret.ret = "Block") =>
                  /\ Len(Returned.transactions) = Len(d.transaction_list)
                  /\ \A k \in DOMAIN d.transaction_list :
                        /\ Returned.transactions[k].gas_used = d.transaction_list[k].gas_used
                        /\ Returned.transactions[k].state_root = d.transaction_list[k].state_root
                  /\ Returned.header = d.header
                  /\ Returned.uncles = d.uncles

\* a block with two transactions and an uncle, mined on a block that is not
\* the genesis block, was returned after the replay on its parent
C14_Witness ==
    /\ built # <<>>
    /\ built.op = "deserialize"
    /\ last.op = "deserialize"
    /\ built.ret.ret = "Block"
    /\ built.args.rlpdata.header.state_root \notin built.args.db.roots
    /\ built.args.rlpdata.header.number = 2
    /\ Len(Returned.transactions) = 2
    /\ Len(Returned.uncles) = 1

-----------------------------------------------------------------------------
\* A child block (SpecChild): init_from_parent is called on a block under
\* account writes and commit, or on a block obtained through get_block

InitChild ==
    /\ InitBlock("Block") \/ InitBlock("CachedBlock")
    /\ coinbase = "aa"
    /\ uncles = <<>>
    /\ InitChain

NextChild ==
    \/ Within(MaxOps) /\ \E a \in Addr, v \in Vals : SetBalance(a, v)
    \/ Within(MaxOps) /\ \E a \in Addr, i \in Index, v \in Vals : SetStorageData(a, i, v)
    \/ Within(MaxOps) /\ CommitState
    \/ Within(MaxOps) /\ UseGas
    \/ Within(MaxOps) /\ \E a \in Addr, i \in Index, v \in Vals : CachedSetStorageData(a, i, v)
    \/ Within(MaxOps) /\ CachedHash
    \/ Within(MaxOps) /\ \E p \in ParentFields, cb \in {"aa", ""},
                             us \in {<<>>, <<UncleHeader("bb", "u")>>} :
                              InitFromParent(p, cb, "x", p.timestamp + 4, us)
    \/ Within(MaxOps) /\ \E gas_limit \in GasLimits, gas \in GasUsed : CalcGaslimit(gas_limit, gas)

SpecChild == InitChild /\ [][NextChild]_vars

\* the larger of two numbers
Larger(x, y) == IF x > y THEN x ELSE y

\* C16 (as claimed): the block init_from_parent returns has prevhash =
\* hash(parent), number = parent.number + 1, gas_used = 0, min_gas_price = 0,
\* an empty nonce, an empty transaction list with the root of the empty trie,
\* gas_limit = max(125000, floor((parent.gas_limit * 1023 +
\* floor(parent.gas_used * 6 / 5)) / 1024)), and the parent's state root, so
\* that every account read on the child returns what the same read returns
\* on the parent at the time of the call; its caches and journal are empty.
C16_InitFromParent ==
    /\ (built # <<>> /\ built.op = "calc_gaslimit") =>
          built.ret = Larger(125000, (built.args.gas_limit * 1023
                                        + ((built.args.gas_used * 6) \div 5)) \div 1024)
    /\ (built # <<>> /\ built.op = "init_from_parent" /\ built.ret.ret = "Block") =>
          LET h == Returned.header
              a == built.args
          IN  /\ h.prevhash = a.parent_hash
              /\ h.number = a.parent.number + 1
              /\ h.gas_used = 0
              /\ h.min_gas_price = 0
              /\ h.nonce = <<>>
              /\ Returned.transactions = <<>>
              /\ h.tx_list_root = tx_list_root(<<>>)
              /\ h.gas_limit = Larger(125000, (a.parent.gas_limit * 1023
                                    + ((a.parent_gas_used * 6) \div 5)) \div 1024)
              /\ h.coinbase = a.coinbase
              /\ h.extra_data = a.extra_data
              /\ h.timestamp = a.timestamp
              /\ Returned.uncles = a.uncles
              /\ Reads(EmptyCaches, h.state_root) = a.parent_reads
              /\ Returned.caches = EmptyCaches
              /\ Returned.journal = <<>>

-----------------------------------------------------------------------------
\* Framing (SpecFraming): the remote side sends well-formed packets, the
\* socket hands their bytes over in chunks of any size, and the loop of the
\* peer runs.

MaxPackets == 3

HelloOk == Packet("Hello", <<NETWORK_PROTOCOL_VERSION, 5, 6, 7, 8>>)
HelloOld == Packet("Hello", <<NETWORK_PROTOCOL_VERSION - 1, 5, 6, 7, 8>>)
StatusOk == Packet("Status", <<ETHEREUM_PROTOCOL_VERSION, NETWORK_ID, 10, 11, GenesisHash>>)

\* the packets the remote side sends; the one named None carries a command
\* id the peer does not know
WellFormed ==
    {HelloOk, HelloOld, StatusOk, Packet("Ping", <<>>), Packet("None", <<>>)}

NextFraming ==
    \/ \E pkt \in WellFormed : Len(sock.arrived) < MaxPackets /\ Arrive(pkt)
    \/ \E n \in 1..Len(sock.inbound) : Recv(n)
    \/ RecvTimeout
    \/ ProcessSend

SpecFraming == Init /\ [][NextFraming]_vars

\* the bytes of a sequence of packets
Bytes(pkts) == Flatten([k \in DOMAIN pkts |-> dump(pkts[k])])

\* the bytes recv has returned so far
Received == SubSeq(Bytes(sock.arrived), 1, Len(Bytes(sock.arrived)) - Len(sock.inbound))

\* how many of the packets lie whole within the first n bytes
RECURSIVE Whole(_, _)
Whole(pkts, n) ==
    IF pkts = <<>> \/ Len(dump(Head(pkts))) > n THEN 0
    ELSE 1 + Whole(Tail(pkts), n - Len(dump(Head(pkts))))

\* the packets the peer has dispatched, in the order of their dispatch
Dispatched ==
    LET ds == SelectSeq(trace, LAMBDA e : e.ev = "dispatch")
    IN  [k \in DOMAIN ds |-> Packet(ds[k].name, ds[k].arg)]

\* C17: whatever the chunks in which the bytes of a stream of well-formed
\* packets are received, the packets dispatched are exactly the packets with
\* a known command whose bytes have all been received, once each and in the
\* order of their arrival, and the receive buffer holds exactly the bytes
\* received after them: no packet is dispatched before its last byte is
\* there and no byte of a following packet is lost.
C17_FramingOrder ==
    LET done == SubSeq(sock.arrived, 1, Whole(sock.arrived, Len(Received)))
    IN  /\ Dispatched = SelectSeq(done, LAMBDA pkt : pkt.cmd \in Handled)
        /\ peer.recv_buffer = SubSeq(Received, Len(Bytes(done)) + 1, Len(Received))

\* two packets were dispatched and a part of a third one waits in the buffer
C17_Witness ==
    /\ Len(Dispatched) = 2
    /\ Dispatched[1] # Dispatched[2]
    /\ Len(sock.arrived) = 3
    /\ peer.recv_buffer # <<>>
    /\ sock.inbound # <<>>

\* the step dispatches exactly one packet, pkt
Dispatches(pkt) == Dispatched' = Append(Dispatched, pkt)

\* C20 (as claimed): a Hello whose protocol version differs from the local
\* one enqueues Disconnect('Incompatible network protocols') and emits
\* peer_disconnect_requested with forget = true and nothing else: no
\* peer_handshake_success, no Hello in reply; hello_received, capabilities,
\* client_version, node_id and port are what they were.
C20_HelloMismatch ==
    [][Dispatches(HelloOld) =>
          LET bye == Packet("Disconnect", <<IdOf(Reasons, "Incompatible network protocols")>>)
          IN  /\ trace' = trace \o <<Ev("dispatch", "Hello", HelloOld.data),
                                      Ev("enqueue", "Disconnect", bye.data),
                                      Ev("signal", "peer_disconnect_requested", <<"True">>)>>
              /\ peer'.response_queue = Append(peer.response_queue, bye)
              /\ peer'.hello_sent = peer.hello_sent
              /\ peer'.hello_received = peer.hello_received
              /\ peer'.capabilities = peer.capabilities
              /\ peer'.client_version = peer.client_version
              /\ peer'.node_id = peer.node_id
              /\ peer'.port = peer.port]_vars

-----------------------------------------------------------------------------
\* Flow limits (SpecFlow): other threads call the send methods of the peer
\* with lists at and above the limits, the remote side asks for hashes and
\* blocks at and above the limits, and the loop of the peer runs.

MaxCalls == 2

\* lengths of a list of blocks, and of a list of hashes
BlockCounts == {MAX_BLOCKS_SEND, MAX_BLOCKS_SEND + 1}
HashCounts == {MAX_GET_CHAIN_SEND_HASHES, MAX_GET_CHAIN_SEND_HASHES + 1}

\* what the remote side asks for
Asked ==
    {Packet("GetBlocks", <<MAX_GET_CHAIN_REQUEST_BLOCKS + 1>>),
     Packet("GetBlockHashes", <<9, MAX_GET_CHAIN_ACCEPT_HASHES + 1>>)}

NextFlow ==
    \/ Within(MaxCalls) /\ \E n \in BlockCounts : SendBlocks(n)
    \/ Within(MaxCalls) /\ \E n \in BlockCounts : SendGetBlocks(n)
    \/ Within(MaxCalls) /\ \E n \in HashCounts : SendBlockHashes(n)
    \/ Within(MaxCalls) /\ \E n \in HashCounts : SendGetBlockHashes(9, n)
    \/ \E pkt \in Asked : Len(sock.arrived) < MaxPackets - 1 /\ Arrive(pkt)
    \/ sock.inbound # <<>> /\ Recv(Len(sock.inbound))
    \/ RecvTimeout
    \/ ProcessSend

SpecFlow == Init /\ [][NextFlow]_vars

\* the packets enqueued so far, and the packets of a command among them
Enqueued ==
    LET es == SelectSeq(trace, LAMBDA e : e.ev = "enqueue")
    IN  [k \in DOMAIN es |-> Packet(es[k].name, es[k].arg)]
Those(pkts, cmd) == {pkts[k] : k \in {i \in DOMAIN pkts : pkts[i].cmd = cmd}}

\* the arguments of the signals of a name emitted so far
Emitted(name) ==
    {trace[k].arg : k \in {i \in DOMAIN trace : /\ trace[i].ev = "signal"
                                                  /\ trace[i].name = name}}

\* C18: send_Blocks with more than 512 blocks is rejected before anything is
\* enqueued: the call raises and leaves the outbound queue as it was, and at
\* no time is a Blocks packet of more than 512 blocks enqueued, in the queue
\* or written to the socket.
C18_BlocksLimit ==
    /\ [](\A pkt \in Those(Enqueued, "Blocks") \cup Those(peer.response_queue, "Blocks")
                      \cup Those(sock.written, "Blocks") :
              pkt.data[1] <= 512)
    /\ [][(nops' # nops /\ built'.op = "send_Blocks" /\ built'.args.blocks > 512) =>
              /\ built'.ret = "AssertionError"
              /\ UNCHANGED <<peer, sock, trace>>]_vars

\* send_Blocks was called with 513 blocks and raised while a Blocks packet
\* of 512 blocks waited in the queue
C18_Witness ==
    /\ built # <<>>
    /\ built.op = "send_Blocks"
    /\ built.args.blocks = 513
    /\ built.ret = "AssertionError"
    /\ peer.response_queue = <<Packet("Blocks", <<512>>)>>

\* C19 (as claimed): the peer never enqueues a BlockHashes packet of more
\* than 2048 hashes nor a GetBlocks packet asking for more than 512 blocks,
\* and a received GetBlockHashes count above 2048 or a received GetBlocks
\* list of more than 512 hashes is not handed to the subscribers as it is.
C19_FlowLimits ==
    /\ \A pkt \in Those(Enqueued, "BlockHashes") : pkt.data[1] <= 2048
    /\ \A pkt \in Those(Enqueued, "GetBlocks") : pkt.data[1] <= 512
    /\ \A arg \in Emitted("get_block_hashes_received") : arg[1] <= 2048
    /\ \A arg \in Emitted("get_blocks_received") : arg[1] <= 512

-----------------------------------------------------------------------------
\* The handshake (SpecHandshake): the remote side sends Hello and Status
\* packets that match the local versions, network and genesis or do not,
\* in any order; this side may say Hello first.

StatusEth ==
    Packet("Status", <<ETHEREUM_PROTOCOL_VERSION + 1, NETWORK_ID, 20, 21, GenesisHash>>)
StatusNet ==
    Packet("Status", <<ETHEREUM_PROTOCOL_VERSION, NETWORK_ID + 1, 20, 21, GenesisHash>>)
StatusGenesis ==
    Packet("Status", <<ETHEREUM_PROTOCOL_VERSION, NETWORK_ID, 20, 21, GenesisHash + 1>>)

Statuses == {StatusOk, StatusEth, StatusNet, StatusGenesis}
Greetings == {HelloOk, HelloOld} \cup Statuses

NextHandshake ==
    \/ \E pkt \in Greetings : Len(sock.arrived) < MaxPackets - 1 /\ Arrive(pkt)
    \/ sock.inbound # <<>> /\ Recv(Len(sock.inbound))
    \/ RecvTimeout
    \/ ProcessSend
    \/ Within(MaxCalls - 1) /\ SendHello

SpecHandshake == Init /\ [][NextHandshake]_vars

\* the Status matches the local protocol version, network id and genesis
Matches(pkt) ==
    /\ pkt.data[1] = ETHEREUM_PROTOCOL_VERSION
    /\ pkt.data[2] = NETWORK_ID
    /\ pkt.data[5] = GenesisHash

\* the signals of a name emitted so far, as positions of the trace
Signals(t, name) == {k \in DOMAIN t : t[k].ev = "signal" /\ t[k].name = name}

\* C21: a received Status sets status_received, records
\* status_total_difficulty and status_head_hash and emits
\* peer_status_received, and nothing else, exactly when its protocol
\* version, network id and genesis hash all match the local ones; otherwise
\* a Disconnect is enqueued, peer_disconnect_requested is emitted and no
\* peer_status_received, and the three fields keep their values.
C21_StatusCheck ==
    [][\A pkt \in Statuses : Dispatches(pkt) =>
          IF Matches(pkt)
          THEN /\ peer'.status_received
               /\ peer'.status_total_difficulty = pkt.data[3]
               /\ peer'.status_head_hash = pkt.data[4]
               /\ trace' = trace \o <<Ev("dispatch", "Status", pkt.data),
                                       Ev("signal", "peer_status_received", <<>>)>>
               /\ peer'.response_queue = peer.response_queue
          ELSE /\ peer'.status_received = peer.status_received
               /\ peer'.status_total_difficulty = peer.status_total_difficulty
               /\ peer'.status_head_hash = peer.status_head_hash
               /\ Len(trace') = Len(trace) + 3
               /\ trace'[Len(trace) + 2].ev = "enqueue"
               /\ trace'[Len(trace) + 2].name = "Disconnect"
               /\ Len(peer'.response_queue) = Len(peer.response_queue) + 1
               /\ peer'.response_queue[Len(peer'.response_queue)].cmd = "Disconnect"
               /\ Signals(trace', "peer_status_received")
                      = Signals(trace, "peer_status_received")
               /\ Signals(trace', "peer_disconnect_requested")
                      = Signals(trace, "peer_disconnect_requested") \cup {Len(trace')}]_vars

\* a Status with another genesis hash was turned down after a matching one
\* had been recorded
C21_Witness ==
    /\ Len(trace) >= 5
    /\ trace[Len(trace) - 2].ev = "dispatch"
    /\ trace[Len(trace) - 2].arg = StatusGenesis.data
    /\ peer.status_received
    /\ peer.status_total_difficulty = StatusOk.data[3]

\* C22 (as claimed): status_received = true implies hello_received = true
\* in every state, and peer_status_received is never emitted before
\* peer_handshake_success.
C22_HandshakeOrder ==
    /\ peer.status_received => peer.hello_received
    /\ \A k \in Signals(trace, "peer_status_received") :
           \E j \in Signals(trace, "peer_handshake_success") : j < k

\* the Hello packets enqueued in answer to a received Hello: the handler
\* enqueues right after the dispatch
Replies ==
    {k \in DOMAIN trace : /\ k > 1
                          /\ trace[k].ev = "enqueue" /\ trace[k].name = "Hello"
                          /\ trace[k - 1].ev = "dispatch" /\ trace[k - 1].name = "Hello"}

\* C23: a received valid Hello enqueues a Hello exactly when hello_sent was
\* false, sets hello_received and hello_sent and emits
\* peer_handshake_success once; in every state hello_received implies
\* hello_sent, and the Hello packets received have caused at most one Hello
\* to be enqueued.
C23_HelloReply ==
    /\ [](peer.hello_received => peer.hello_sent)
    /\ [](Cardinality(Replies) <= 1)
    /\ [][Dispatches(HelloOk) =>
             /\ peer'.hello_received
             /\ peer'.hello_sent
             /\ trace' = trace \o <<Ev("dispatch", "Hello", HelloOk.data)>>
                               \o (IF peer.hello_sent THEN <<>>
                                   ELSE <<Ev("enqueue", "Hello",
                                             <<NETWORK_PROTOCOL_VERSION, 1, 1, 1, 1>>)>>)
                               \o <<Ev("signal", "peer_handshake_success", <<>>)>>
             /\ Len(peer'.response_queue)
                    = Len(peer.response_queue) + (IF peer.hello_sent THEN 0 ELSE 1)]_vars

\* two valid Hello packets were received, one at a time, and one Hello was
\* enqueued in answer
C23_Witness ==
    /\ Cardinality(Signals(trace, "peer_handshake_success")) = 2
    /\ Cardinality(Replies) = 1
    /\ Len(trace) = 5

\* the peer sent or received a Disconnect at position k of the trace
Closing(k) ==
    /\ trace[k].name = "Disconnect"
    /\ trace[k].ev \in {"enqueue", "dispatch"}

\* C29 (as claimed): once the peer has sent or received a Disconnect it
\* dispatches no further packet and emits no further peer_handshake_success
\* or peer_status_received.
C29_ClosedTerminal ==
    \A k \in DOMAIN trace : Closing(k) =>
        \A j \in DOMAIN trace : j > k =>
            /\ trace[j].ev # "dispatch"
            /\ trace[j].name \notin {"peer_handshake_success", "peer_status_received"}

\* q is the beginning of r
IsPrefix(q, r) == Len(q) <= Len(r) /\ q = SubSeq(r, 1, Len(q))

-----------------------------------------------------------------------------
\* The session (SpecSession): the remote side sends packets, some of which
\* do not decode; other threads send a Disconnect and stop the peer at any
\* time, also between two packets of one recv; a write to the socket may
\* fail.

HelloShort == Packet("Hello", <<NETWORK_PROTOCOL_VERSION, 5, 6, 7>>)
GetBlockHashesShort == Packet("GetBlockHashes", <<9>>)
DisconnectUnknown == Packet("Disconnect", <<Len(Reasons)>>)

\* known commands whose payload does not decode
Undecodable == {HelloShort, GetBlockHashesShort, DisconnectUnknown}

\* bytes with a wrong magic in front
Garbled == <<0, 0, 0, 0, 0, 0, 0, 1, 0>>

Talk ==
    {Packet("Ping", <<>>), Packet("Disconnect", <<>>),
     Packet("Disconnect", <<IdOf(Reasons, "Disconnect requested")>>),
     Packet("Disconnect", <<IdOf(Reasons, "Bad protocol")>>)} \cup Undecodable

NextSession ==
    \/ \E pkt \in Talk : Len(sock.arrived) < MaxPackets - 1 /\ Arrive(pkt)
    \/ Len(sock.arrived) < MaxPackets - 1 /\ ArriveRaw(Garbled)
    \/ sock.inbound # <<>> /\ RecvBytes(Len(sock.inbound))
    \/ ProcessPacket
    \/ RecvTimeout
    \/ ProcessSend
    \/ SendFails
    \/ Stop
    \/ TickStopped
    \/ Within(MaxCalls - 1) /\ \E reason \in {"Disconnect requested", "Bad protocol"} :
                                  SendDisconnect(reason)

SpecSession == Init /\ [][NextSession]_vars

\* the packet at the head of the buffer is whole
WholePacket ==
    /\ Len(peer.recv_buffer) >= 8
    /\ Len(peer.recv_buffer) >= packet_size(peer.recv_buffer)

\* the whole packet at the head of the buffer does not decode: as a frame,
\* or as the payload of its command
Fails ==
    LET loaded == load_cmd(peer.recv_buffer)
    IN  \/ ~loaded.ok
        \/ Packet(loaded.cmd, loaded.data) \in Undecodable

\* C24 (as claimed): a packet of a known command that fails to decode, as a
\* frame or as the payload in its handler, has Disconnect('Bad protocol')
\* enqueued, leaves the receive buffer empty and does not advance
\* last_valid_packet_received, and the loop of the peer does not end with an
\* unhandled error.
C24_DecodingFailure ==
    [][(/\ peer.pc = "parse" /\ WholePacket /\ Fails
        /\ Len(peer'.recv_buffer) < Len(peer.recv_buffer)) =>
          /\ peer'.response_queue
                 = Append(peer.response_queue,
                          Packet("Disconnect", <<IdOf(Reasons, "Bad protocol")>>))
          /\ peer'.recv_buffer = <<>>
          /\ peer'.last_valid_packet_received = peer.last_valid_packet_received
          /\ peer'.pc # "crashed"]_vars

\* the part of C24 about frames: bytes load_cmd cannot decode
C24_FrameFailure ==
    [][(/\ peer.pc = "parse" /\ WholePacket /\ ~load_cmd(peer.recv_buffer).ok
        /\ Len(peer'.recv_buffer) < Len(peer.recv_buffer)) =>
          /\ peer'.response_queue
                 = Append(peer.response_queue,
                          Packet("Disconnect", <<IdOf(Reasons, "Bad protocol")>>))
          /\ peer'.recv_buffer = <<>>
          /\ peer'.last_valid_packet_received = peer.last_valid_packet_received
          /\ peer'.pc # "crashed"]_vars

\* the forget flag of a Disconnect with the given data
Forget(data) ==
    IF data = <<>> THEN "None"
    ELSE IF Reasons[data[1] + 1] \in
              {"Bad protocol", "Incompatible network protocols", "Wrong genesis block"}
    THEN "True" ELSE "False"

\* C25: every peer_disconnect_requested follows the sending or the receipt
\* of a Disconnect, and its forget flag is true when the reason of that
\* Disconnect is 'Bad protocol', 'Incompatible network protocols' or 'Wrong
\* genesis block', false for another reason, and None only for a received
\* Disconnect without reason.
C25_ForgetPolicy ==
    \A k \in Signals(trace, "peer_disconnect_requested") :
        /\ k > 1
        /\ Closing(k - 1)
        /\ trace[k].arg = <<Forget(trace[k - 1].arg)>>
        /\ trace[k].arg = <<"None">> => trace[k - 1].ev = "dispatch"

\* a Disconnect without reason and one for 'Bad protocol' were received and
\* one for 'Disconnect requested' was sent
C25_Witness ==
    /\ Emitted("peer_disconnect_requested") = {<<"None">>, <<"True">>, <<"False">>}
    /\ \E k \in Signals(trace, "peer_disconnect_requested") :
           trace[k].arg = <<"False">> /\ trace[k - 1].ev = "enqueue"

\* C27 (as claimed): once stop() was called no byte is written to or read
\* from the socket and no packet is dispatched; a tick of a stopped peer
\* with a packet in the queue ends the loop without writing it; and a write
\* error stops the peer and ends the loop without a forget request.
C27_Stop ==
    [][/\ peer.stopped =>
             /\ sock'.written = sock.written
             /\ sock'.arrived = sock.arrived => sock'.inbound = sock.inbound
             /\ Dispatched' = Dispatched
       /\ (peer.stopped /\ peer.pc = "send" /\ peer'.pc # peer.pc) =>
             peer'.pc = "exited"
       /\ (~peer.stopped /\ peer'.stopped /\ peer'.pc = "exited") =>
             /\ trace' = trace
             /\ sock'.written = sock.written]_vars

-----------------------------------------------------------------------------
\* A cached block (SpecCached): the state-mutating operations and the hash
\* are called on a block obtained through get_block

InitCached ==
    /\ InitBlock("CachedBlock")
    /\ coinbase = "aa"
    /\ uncles = <<>>
    /\ InitChain

NextCached ==
    \/ Within(MaxOps) /\ \E op \in {"set_nonce", "set_balance", "set_code"} : CachedSetAcctItem(op)
    \/ Within(MaxOps) /\ \E a \in Addr, v \in {0 - 2, 1} : CachedDeltaBalance(a, v)
    \/ Within(MaxOps) /\ \E a \in Addr, i \in Index, v \in Vals : CachedSetStorageData(a, i, v)
    \/ Within(MaxOps) /\ \E a \in Addr : CachedDelAccount(a)
    \/ Within(MaxOps) /\ \E st \in ParentStates : CachedSetStateRoot(st)
    \/ Within(MaxOps) /\ CachedAddTransactionToList
    \/ Within(MaxOps) /\ CachedRevert
    \/ Within(MaxOps) /\ CachedFinalize
    \/ Within(MaxOps) /\ CachedHash

SpecCached == InitCached /\ [][NextCached]_vars

\* what blk.hash returns
HashRead ==
    IF hash_cached # None THEN hash_cached
    ELSE object_hash(state, transactions, gas_used, coinbase)

\* C7 (as claimed): on a CachedBlock every one of set_nonce, set_balance,
\* delta_balance, set_code, set_storage_data, del_account, assignment to
\* state_root, add_transaction_to_list, revert and finalize fails, and none
\* changes the caches, the journal, the state trie, the transactions trie or
\* the hash.
C7_CachedBlockRejects ==
    [][cls = "CachedBlock" =>
          /\ last'.op # "hash" => last'.ret \in {"TypeError", "False"}
          /\ caches' = caches
          /\ journals' = journals /\ journal' = journal
          /\ state' = state
          /\ transactions' = transactions
          /\ HashRead' = HashRead]_vars

\* the part of C7 the code keeps: the operations that go through
\* _set_acct_item, _add_transaction_to_list or revert fail and change nothing
C7_OverriddenReject ==
    [][(cls = "CachedBlock" /\ last'.op \in {"set_nonce", "set_balance", "set_code",
            "delta_balance", "add_transaction_to_list", "revert", "finalize"}) =>
          /\ last'.ret \in {"TypeError", "False"}
          /\ caches' = caches
          /\ journals' = journals /\ journal' = journal
          /\ state' = state
          /\ transactions' = transactions
          /\ HashRead' = HashRead]_vars

-----------------------------------------------------------------------------
\* Finalization (SpecFinalize): a block with a coinbase and uncles is written
\* to, committed, snapshot, reverted and finalized

\* the uncle lists of the block: none, one uncle of the block's own miner and
\* one of another, two uncles of one miner
FinalizeUncles ==
    {<<>>,
     <<UncleHeader("aa", "x"), UncleHeader("bb", "x")>>,
     <<UncleHeader("bb", "x"), UncleHeader("bb", "y")>>}

InitFinalize ==
    /\ InitBlock("Block")
    /\ state = EmptyMap
    /\ coinbase = "aa"
    /\ uncles \in FinalizeUncles
    /\ InitChain

NextFinalize ==
    \/ Within(MaxOps + 2) /\ \E a \in Addr : SetNonce(a, 1)
    \/ Within(MaxOps + 2) /\ \E a \in Addr : SetBalance(a, 1)
    \/ Within(MaxOps + 2) /\ CommitState
    \/ Within(MaxOps + 2) /\ Snapshot
    \/ Within(MaxOps + 2) /\ \E k \in 1..MaxSnaps : Revert(k)
    \/ Within(MaxOps + 2) /\ Finalize

SpecFinalize == InitFinalize /\ [][NextFinalize]_vars

\* what finalize is to add to the balance of address a
Credit(a) ==
    (IF a = coinbase THEN BLOCK_REWARD + NEPHEW_REWARD * Len(uncles) ELSE 0)
        + UNCLE_REWARD * Cardinality({k \in DOMAIN uncles : uncles[k].coinbase = a})

\* C8 (as claimed): once finalize() has been called, every later
\* commit_state() changes neither the state trie nor the caches, whatever was
\* called in between.
C8_SealedCommitNoOp ==
    [][(sealed /\ CommitState) => (state' = state /\ caches' = caches)]_vars

\* C8 (amended): finalize() leaves the journal empty and the caches reset, and
\* a commit_state() called directly after finalize() changes neither the state
\* trie nor the caches nor the journal.
C8_CommitAfterFinalize ==
    /\ [](last.op = "finalize" => (Journal = <<>> /\ caches = EmptyCaches))
    /\ [][(last.op = "finalize" /\ CommitState) =>
             /\ state' = state
             /\ caches' = caches
             /\ journals' = journals
             /\ journal' = journal]_vars

\* commit_state was called directly after the finalize of a block that had
\* uncles and a balance written before
C8_Witness ==
    /\ sealed
    /\ last.op = "commit_state"
    /\ nops = 3
    /\ uncles # <<>>
    /\ expect.balance["bb"] = 1 + 2 * UNCLE_REWARD
    /\ "bb" \in DOMAIN state /\ state["bb"].balance = 1 + 2 * UNCLE_REWARD

\* C9 (as claimed): finalize() adds BLOCK_REWARD + NEPHEW_REWARD * |uncles| to
\* the coinbase's balance and UNCLE_REWARD per uncle to its coinbase's (the
\* amounts adding up), changes no other balance, and ends with the journal
\* empty and the credited balances in the state trie.
C9_FinalizeRewards ==
    [][Finalize =>
          /\ \A a \in Addr :
                get_balance(caches', state', a) = get_balance(caches, state, a) + Credit(a)
          /\ Journal' = <<>>
          /\ \A a \in Addr : Credit(a) > 0 =>
                /\ a \in DOMAIN state'
                /\ state'[a].balance = get_balance(caches, state, a) + Credit(a)]_vars

\* the part of C9 the code keeps: the credited accounts and the commit
C9_CreditsCommitted ==
    [][Finalize =>
          /\ Journal' = <<>>
          /\ \A a \in Addr : Credit(a) > 0 =>
                /\ get_balance(caches', state', a) = get_balance(caches, state, a) + Credit(a)
                /\ a \in DOMAIN state'
                /\ state'[a].balance = get_balance(caches, state, a) + Credit(a)]_vars


\* ---------------------------------------------------------------------
\* The answer to Ping (SpecLive)
\* ---------------------------------------------------------------------

\* the remote side pings, pongs and says Hello, and may close the
\* connection after its last packet; the peer is never stopped and every
\* write succeeds
Pings == {Packet("Ping", <<>>), Packet("Pong", <<>>), HelloOk}

\* the steps of the loop of the peer
LoopStep ==
    \/ ProcessSend
    \/ \E n \in 1..Len(sock.inbound) : Recv(n)
    \/ RecvTimeout
    \/ RecvEof

NextLive ==
    \/ \E pkt \in Pings : ~sock.closed /\ Len(sock.arrived) < MaxPackets /\ Arrive(pkt)
    \/ RemoteClose
    \/ LoopStep

\* the thread of the peer is scheduled again and again: a step of its loop
\* that can be taken is taken
SpecLive == Init /\ [][NextLive]_vars /\ WF_vars(LoopStep)

\* the events that follow the dispatch at place k of the trace, up to the
\* next dispatch
RECURSIVE Effects(_, _)
Effects(t, k) ==
    IF k + 1 > Len(t) \/ t[k + 1].ev = "dispatch" THEN <<>>
    ELSE <<t[k + 1]>> \o Effects(t, k + 1)

\* every dispatched Ping enqueued exactly one Pong and nothing else
PingAnswered ==
    \A k \in DOMAIN trace :
        trace[k].ev = "dispatch" /\ trace[k].name = "Ping"
            => Effects(trace, k) = <<Ev("enqueue", "Pong", <<>>)>>

\* C28 (as claimed): every dispatched Ping enqueues exactly one Pong and
\* nothing else, and, the peer not being stopped and every write
\* succeeding, each Pong that is enqueued is eventually written to the
\* socket, under fair scheduling of the loop.
C28_PingPong ==
    /\ []PingAnswered
    /\ \A k \in 1..MaxPackets :
           (Len(Enqueued) >= k /\ Enqueued[k].cmd = "Pong")
               ~> (Len(sock.written) >= k /\ sock.written[k].cmd = "Pong")


\* C32 (as claimed): every tick of the loop terminates: once _process_send
\* has run and _process_recv is reading, loop_body returns and the next
\* tick starts, whatever the socket does: bytes in any chunks, a timeout,
\* an orderly close by the remote side, with a whole packet, a part of
\* one or nothing in the receive buffer.
C32_TickTerminates == (peer.pc = "recv") ~> (peer.pc = "send")


-----------------------------------------------------------------------------
\* The Disconnect frame and the close (SpecHandshake)

\* how many packets were enqueued up to place k of the trace
EnqueuedUpTo(t, k) == Cardinality({i \in 1..k : t[i].ev = "enqueue"})

\* the places of the trace where send_Disconnect emitted
\* peer_disconnect_requested: right after it enqueued its packet
Requested(t) ==
    {k \in DOMAIN t : /\ k > 1
                      /\ t[k].ev = "signal"
                      /\ t[k].name = "peer_disconnect_requested"
                      /\ t[k - 1].ev = "enqueue"
                      /\ t[k - 1].name = "Disconnect"}

\* C33 (as claimed): whenever send_Disconnect is invoked, from the
\* dispatch of a received packet in particular, the Disconnect packet it
\* enqueued has been written to the socket when peer_disconnect_requested
\* is emitted, and when the peer is stopped.
C33_DisconnectOnWire ==
    /\ [][\A k \in Requested(trace') \ Requested(trace) :
             Len(sock.written') >= EnqueuedUpTo(trace', k)]_vars
    /\ [](peer.stopped =>
             \A k \in DOMAIN Enqueued :
                 Enqueued[k].cmd = "Disconnect" => Len(sock.written) >= k)

\* what the code does instead: when peer_disconnect_requested is emitted
\* the Disconnect packet is in the outbound queue, not yet written, behind
\* the packets enqueued before it
C33_DisconnectQueued ==
    [][\A k \in Requested(trace') \ Requested(trace) :
          /\ Len(sock.written') < EnqueuedUpTo(trace', k)
          /\ Enqueued'[EnqueuedUpTo(trace', k)].cmd = "Disconnect"
          /\ Enqueued' = sock.written' \o peer'.response_queue]_vars

====
